---- MODULE Spec2Model ----
(***************************************************************************)
(* Model of the SVG editor component (src/app/editor/svg-editor.tsx):      *)
(* the path grammar (parsePath / commandsToString), the point resolver     *)
(* (getPathPoints), the point editor (movePathPoint), the structural path  *)
(* edits, the shape list, the snapshot history and the import callback.    *)
(*                                                                         *)
(* Encoding conventions                                                     *)
(*  - a JavaScript string that the code takes apart (path data) is a       *)
(*    sequence of one-character strings; colours are opaque strings;       *)
(*  - a JavaScript number is an integer, or one of the sentinels NaN,      *)
(*    Undef (a missing array element read as `undefined`) and Huge (the    *)
(*    number 1e21, the first that is written in exponent notation);        *)
(*  - `T | null` is a sequence of length 0 (null) or 1;                    *)
(*  - array indices (cmdIndex, valueIndex) are 0-based as in the code;     *)
(*  - every path carries `ref`, the identity of its `commands` array and   *)
(*    of the `values` arrays below it, so that sharing between the live    *)
(*    list and a snapshot is visible.                                      *)
(***************************************************************************)
EXTENDS Integers, Sequences, FiniteSets, TLC

(* ------------------------------ bounds --------------------------------- *)
MaxId == 4
MaxHist == 2
MaxCmds == 3
MaxPending == 1
MaxEvents == 8
MaxBrief == 7
MaxElems == 3
MaxPathEvents == 5
MaxSeq == 2
MaxEmitEvents == 4
MaxExportEvents == 5
MaxText == 4

(* --------------------------- JavaScript values ------------------------- *)
NaN == 9999
Undef == 9998
\* the number 1e21; it absorbs every integer of the model that is added to it
Huge == 9997

IsNum(v) == v # NaN /\ v # Undef

\* a + b on JavaScript numbers: anything that is not a number gives NaN
Plus(a, b) ==
    IF ~(IsNum(a) /\ IsNum(b)) THEN NaN
    ELSE IF a = Huge \/ b = Huge THEN Huge
    ELSE a + b

\* arr[i], 0-based; reading past the end gives undefined
Get(arr, i) == IF i >= 0 /\ i < Len(arr) THEN arr[i + 1] ELSE Undef

RECURSIVE Holes(_)
Holes(n) == IF n <= 0 THEN <<>> ELSE <<Undef>> \o Holes(n - 1)

\* arr[i] = v, 0-based; writing past the end extends the array
SetAt(arr, i, v) ==
    IF i < Len(arr) THEN [arr EXCEPT ![i + 1] = v]
    ELSE arr \o Holes(i - Len(arr)) \o <<v>>

\* arr.splice(i, 0, e): the start index is clamped to the length
SpliceIn(arr, i, e) ==
    LET k == IF i > Len(arr) THEN Len(arr) ELSE i
    IN  SubSeq(arr, 1, k) \o <<e>> \o SubSeq(arr, k + 1, Len(arr))

\* arr.splice(i, 1): nothing is removed when i is past the end
SpliceOut(arr, i) ==
    IF i >= Len(arr) THEN arr
    ELSE SubSeq(arr, 1, i) \o SubSeq(arr, i + 2, Len(arr))

Abs(n) == IF n < 0 THEN -n ELSE n
Min(a, b) == IF a < b THEN a ELSE b

RECURSIVE SqrtFrom(_, _)
SqrtFrom(n, k) == IF (k + 1) * (k + 1) > n THEN k ELSE SqrtFrom(n, k + 1)
\* Math.sqrt on the squared distances the model produces (perfect squares)
Sqrt(n) == SqrtFrom(n, 0)

(* ------------------------------ characters ----------------------------- *)
LowerLetters == << "a", "b", "c", "d", "e", "f", "g", "h", "i", "j", "k", "l", "m",
                   "n", "o", "p", "q", "r", "s", "t", "u", "v", "w", "x", "y", "z" >>
UpperLetters == << "A", "B", "C", "D", "E", "F", "G", "H", "I", "J", "K", "L", "M",
                   "N", "O", "P", "Q", "R", "S", "T", "U", "V", "W", "X", "Y", "Z" >>
DigitChars == << "0", "1", "2", "3", "4", "5", "6", "7", "8", "9" >>

IsLower(ch) == \E i \in 1..26 : LowerLetters[i] = ch
IsUpper(ch) == \E i \in 1..26 : UpperLetters[i] = ch
IsLetter(ch) == IsLower(ch) \/ IsUpper(ch)
IsDigit(ch) == \E i \in 1..10 : DigitChars[i] = ch
IsSep(ch) == ch = " " \/ ch = ","

toUpperCase(ch) ==
    IF IsLower(ch) THEN UpperLetters[CHOOSE i \in 1..26 : LowerLetters[i] = ch] ELSE ch
toLowerCase(ch) ==
    IF IsUpper(ch) THEN LowerLetters[CHOOSE i \in 1..26 : UpperLetters[i] = ch] ELSE ch

DigitVal(ch) == (CHOOSE i \in 1..10 : DigitChars[i] = ch) - 1

(* ----------------------- number <-> text conversion -------------------- *)
RECURSIVE NatToStr(_)
NatToStr(n) ==
    IF n < 10 THEN <<DigitChars[n + 1]>>
    ELSE NatToStr(n \div 10) \o <<DigitChars[(n % 10) + 1]>>

\* the decimal text of 1e21
HugeDigits == <<"1">> \o [i \in 1..21 |-> "0"]

\* what Array.prototype.join writes for one element
NumToStr(v) ==
    IF v = Undef THEN <<>>
    ELSE IF v = NaN THEN <<"N", "a", "N">>
    ELSE IF v = Huge THEN <<"1", "e", "+", "2", "1">>
    ELSE IF v < 0 THEN <<"-">> \o NatToStr(-v)
    ELSE NatToStr(v)

RECURSIVE DigitsToNat(_, _)
DigitsToNat(tok, acc) ==
    IF tok = <<>> THEN acc
    ELSE DigitsToNat(Tail(tok), acc * 10 + DigitVal(Head(tok)))

AllDigits(tok) == tok # <<>> /\ \A i \in 1..Len(tok) : IsDigit(tok[i])

\* Number(token) for a non-empty token without blanks: an optionally signed
\* run of digits is that integer, anything else is NaN
Number(tok) ==
    IF tok = HugeDigits THEN Huge
    ELSE IF AllDigits(tok) THEN DigitsToNat(tok, 0)
    ELSE IF Len(tok) > 1 /\ (Head(tok) = "-" \/ Head(tok) = "+") /\ AllDigits(Tail(tok))
         THEN (IF Head(tok) = "-" THEN -DigitsToNat(Tail(tok), 0)
                                  ELSE DigitsToNat(Tail(tok), 0))
    ELSE NaN

(* ------------------------------ PathGrammar ---------------------------- *)
\* a split that drops the tokens that are not numbers
RECURSIVE SplitValuesDroppingMalformed(_, _)
SplitValuesDroppingMalformed(run, tok) ==
    LET value == IF tok = <<>> \/ Number(tok) = NaN THEN <<>> ELSE <<Number(tok)>>
    IN  IF run = <<>> THEN value
        ELSE IF IsSep(Head(run))
             THEN value \o SplitValuesDroppingMalformed(Tail(run), <<>>)
        ELSE SplitValuesDroppingMalformed(Tail(run), Append(tok, Head(run)))

\* run.trim().split(/[\s,]+/).filter(Boolean).map(Number): the maximal runs of
\* non-separator characters, each converted with Number
RECURSIVE SplitValues(_, _)
SplitValues(run, tok) ==
    IF run = <<>> THEN (IF tok = <<>> THEN <<>> ELSE <<Number(tok)>>)
    ELSE IF IsSep(Head(run))
         THEN (IF tok = <<>> THEN <<>> ELSE <<Number(tok)>>) \o SplitValues(Tail(run), <<>>)
    ELSE SplitValues(Tail(run), Append(tok, Head(run)))

RECURSIVE NonLetterRun(_)
NonLetterRun(s) ==
    IF s = <<>> \/ IsLetter(Head(s)) THEN <<>>
    ELSE <<Head(s)>> \o NonLetterRun(Tail(s))

RECURSIVE parsePath(_)
parsePath(d) ==
    IF d = <<>> THEN <<>>
    ELSE IF IsLetter(Head(d))
         THEN <<[code |-> Head(d), values |-> SplitValues(NonLetterRun(Tail(d)), <<>>)]>>
              \o parsePath(Tail(d))
    ELSE parsePath(Tail(d))

RECURSIVE JoinValues(_)
JoinValues(vals) ==
    IF vals = <<>> THEN <<>>
    ELSE IF Len(vals) = 1 THEN NumToStr(vals[1])
    ELSE NumToStr(vals[1]) \o <<" ">> \o JoinValues(Tail(vals))

RECURSIVE commandsToString(_)
commandsToString(commands) ==
    IF commands = <<>> THEN <<>>
    ELSE LET c == Head(commands)
             one == <<c.code>> \o JoinValues(c.values)
         IN  IF Len(commands) = 1 THEN one
             ELSE one \o <<" ">> \o commandsToString(Tail(commands))

(* --------------------------- PathPointResolver ------------------------- *)
PathPoint(x, y, ci, vi) == [x |-> x, y |-> y, cmdIndex |-> ci, valueIndex |-> vi]

\* the running state of the walk: the points so far and the current point
Walk(points, cx, cy) == [points |-> points, cx |-> cx, cy |-> cy]

\* a move/line loop that takes the values of a relative command literally
RECURSIVE LoopMLTLiteral(_, _, _, _, _)
LoopMLTLiteral(vals, isRel, ci, i, w) ==
    IF i >= Len(vals) THEN w
    ELSE LET x == Get(vals, i)
             y == Get(vals, i + 1)
         IN  LoopMLTLiteral(vals, isRel, ci, i + 2,
                            Walk(Append(w.points, PathPoint(x, y, ci, i)), x, y))

RECURSIVE LoopMLT(_, _, _, _, _)
LoopMLT(vals, isRel, ci, i, w) ==
    IF i >= Len(vals) THEN w
    ELSE LET x == IF isRel THEN Plus(Get(vals, i), w.cx) ELSE Get(vals, i)
             y == IF isRel THEN Plus(Get(vals, i + 1), w.cy) ELSE Get(vals, i + 1)
         IN  LoopMLT(vals, isRel, ci, i + 2,
                     Walk(Append(w.points, PathPoint(x, y, ci, i)), x, y))

RECURSIVE LoopH(_, _, _, _, _)
LoopH(vals, isRel, ci, i, w) ==
    IF i >= Len(vals) THEN w
    ELSE LET x == IF isRel THEN Plus(Get(vals, i), w.cx) ELSE Get(vals, i)
         IN  LoopH(vals, isRel, ci, i + 1,
                   Walk(Append(w.points, PathPoint(x, w.cy, ci, i)), x, w.cy))

RECURSIVE LoopV(_, _, _, _, _)
LoopV(vals, isRel, ci, i, w) ==
    IF i >= Len(vals) THEN w
    ELSE LET y == IF isRel THEN Plus(Get(vals, i), w.cy) ELSE Get(vals, i)
         IN  LoopV(vals, isRel, ci, i + 1,
                   Walk(Append(w.points, PathPoint(w.cx, y, ci, i)), w.cx, y))

\* a curve loop in which every group becomes the current point
RECURSIVE LoopCSQChained(_, _, _, _, _)
LoopCSQChained(vals, isRel, ci, i, w) ==
    IF i >= Len(vals) THEN w
    ELSE LET x == IF isRel THEN Plus(Get(vals, i), w.cx) ELSE Get(vals, i)
             y == IF isRel THEN Plus(Get(vals, i + 1), w.cy) ELSE Get(vals, i + 1)
         IN  LoopCSQChained(vals, isRel, ci, i + 2,
                            Walk(Append(w.points, PathPoint(x, y, ci, i)), x, y))

RECURSIVE LoopCSQ(_, _, _, _, _)
LoopCSQ(vals, isRel, ci, i, w) ==
    IF i >= Len(vals) THEN w
    ELSE LET x == IF isRel THEN Plus(Get(vals, i), w.cx) ELSE Get(vals, i)
             y == IF isRel THEN Plus(Get(vals, i + 1), w.cy) ELSE Get(vals, i + 1)
             last == i >= Len(vals) - 2
         IN  LoopCSQ(vals, isRel, ci, i + 2,
                     Walk(Append(w.points, PathPoint(x, y, ci, i)),
                          IF last THEN x ELSE w.cx, IF last THEN y ELSE w.cy))

RECURSIVE LoopA(_, _, _, _, _)
LoopA(vals, isRel, ci, i, w) ==
    IF i >= Len(vals) THEN w
    ELSE LET x == IF isRel THEN Plus(Get(vals, i + 5), w.cx) ELSE Get(vals, i + 5)
             y == IF isRel THEN Plus(Get(vals, i + 6), w.cy) ELSE Get(vals, i + 6)
         IN  LoopA(vals, isRel, ci, i + 7,
                   Walk(Append(w.points, PathPoint(x, y, ci, i + 5)), x, y))

\* the body of the forEach callback: one command, at index ci
WalkCommand(cmd, ci, w) ==
    LET upper == toUpperCase(cmd.code)
        isRel == cmd.code # upper
        vals == cmd.values
    IN  IF upper \in {"M", "L", "T"} THEN LoopMLT(vals, isRel, ci, 0, w)
        ELSE IF upper = "H" THEN LoopH(vals, isRel, ci, 0, w)
        ELSE IF upper = "V" THEN LoopV(vals, isRel, ci, 0, w)
        ELSE IF upper \in {"C", "S", "Q"} THEN LoopCSQ(vals, isRel, ci, 0, w)
        ELSE IF upper = "A" THEN LoopA(vals, isRel, ci, 0, w)
        ELSE w

RECURSIVE WalkFrom(_, _, _)
WalkFrom(commands, ci, w) ==
    IF ci >= Len(commands) THEN w
    ELSE WalkFrom(commands, ci + 1, WalkCommand(commands[ci + 1], ci, w))

getPathPoints(commands) == WalkFrom(commands, 0, Walk(<<>>, 0, 0)).points

(* ------------------------ PathEditor: point move ----------------------- *)
\* a switch that writes the pair (nx, ny) whatever the code
MovedValuesAsPair(upper, vals, vi, nx, ny) ==
    SetAt(SetAt(vals, vi, nx), vi + 1, ny)

\* the switch of movePathPoint on the values of the owning command
MovedValues(upper, vals, vi, nx, ny) ==
    IF upper \in {"M", "L", "T", "C", "S", "Q", "A"}
    THEN SetAt(SetAt(vals, vi, nx), vi + 1, ny)
    ELSE IF upper = "H" THEN SetAt(vals, vi, nx)
    ELSE IF upper = "V" THEN SetAt(vals, vi, ny)
    ELSE vals

\* a point move that leaves the code of a relative command as it is
movePathPointKeepingCode(commands, point, nx, ny) ==
    IF point.cmdIndex >= Len(commands)
    THEN [threw |-> TRUE, commands |-> commands]
    ELSE LET cmd == commands[point.cmdIndex + 1]
             upper == toUpperCase(cmd.code)
         IN  [threw |-> FALSE,
              commands |-> [commands EXCEPT ![point.cmdIndex + 1] =
                               [code |-> cmd.code,
                                values |-> MovedValues(upper, cmd.values,
                                                       point.valueIndex, nx, ny)]]]

\* movePathPoint mutates `commands` in place; the result is the array after
\* the call, and threw = TRUE when commands[point.cmdIndex] is undefined and
\* reading its code raises a TypeError
movePathPoint(commands, point, nx, ny) ==
    IF point.cmdIndex >= Len(commands)
    THEN [threw |-> TRUE, commands |-> commands]
    ELSE LET cmd == commands[point.cmdIndex + 1]
             upper == toUpperCase(cmd.code)
         IN  [threw |-> FALSE,
              commands |-> [commands EXCEPT ![point.cmdIndex + 1] =
                               [code |-> upper,
                                values |-> MovedValues(upper, cmd.values,
                                                       point.valueIndex, nx, ny)]]]

(* ----------------------------- shapes ---------------------------------- *)
RectShape(id, x, y, width, height, fill, stroke) ==
    [id |-> id, type |-> "rect", x |-> x, y |-> y, width |-> width,
     height |-> height, fill |-> fill, stroke |-> stroke]

CircleShape(id, cx, cy, r, fill, stroke) ==
    [id |-> id, type |-> "circle", cx |-> cx, cy |-> cy, r |-> r,
     fill |-> fill, stroke |-> stroke]

PathShape(id, commands, d, fill, stroke, ref) ==
    [id |-> id, type |-> "path", commands |-> commands, d |-> d,
     fill |-> fill, stroke |-> stroke, ref |-> ref]

\* the identities of the commands arrays held by a shape list
RefsOf(list) == {list[i].ref : i \in {j \in 1..Len(list) : list[j].type = "path"}}

RECURSIVE RefsOfAll(_)
RefsOfAll(lists) ==
    IF lists = <<>> THEN {} ELSE RefsOf(Head(lists)) \cup RefsOfAll(Tail(lists))

\* the k-th array identity not in `used` (k = 1, 2, ...): a fresh allocation
RECURSIVE FreshRef(_, _)
FreshRef(used, k) ==
    LET r == CHOOSE n \in 0..Cardinality(used) : n \notin used
    IN  IF k <= 1 THEN r ELSE FreshRef(used \cup {r}, k - 1)

\* a shape list by value: array identities dropped
ByValue(list) ==
    [i \in 1..Len(list) |->
        IF list[i].type = "path"
        THEN [id |-> list[i].id, type |-> "path", commands |-> list[i].commands,
              d |-> list[i].d, fill |-> list[i].fill, stroke |-> list[i].stroke]
        ELSE list[i]]

AllByValue(lists) == [i \in 1..Len(lists) |-> ByValue(lists[i])]

\* the number of path shapes among the first n shapes of a list
RECURSIVE PathsBefore(_, _)
PathsBefore(list, n) ==
    IF n <= 0 THEN 0
    ELSE PathsBefore(list, n - 1) + (IF list[n].type = "path" THEN 1 ELSE 0)

\* snapshot as a shallow copy: the paths of the copy keep the commands arrays
\* of the live list
snapshotShallow(list, used) == list

\* snapshot(list): every shape is copied; a path gets new commands and values
\* arrays (identities taken outside `used`), rect and circle a shallow copy
snapshot(list, used) ==
    [i \in 1..Len(list) |->
        IF list[i].type = "path"
        THEN [list[i] EXCEPT !.ref = FreshRef(used, PathsBefore(list, i))]
        ELSE list[i]]

(* ------------------------------ inputs --------------------------------- *)
None == <<>>
Some(v) == <<v>>

Minus(a, b) == IF IsNum(a) /\ IsNum(b) THEN a - b ELSE NaN

\* pointer positions on the canvas (collinear, so that every distance between
\* two of them is an integer)
Positions == { <<0, 0>>, <<3, 4>> }

\* where inside a shape or a point handle the pointer grabs it
GrabOffsets == { <<1, 1>> }

\* the colour picked in the Fill and Stroke inputs
Colors == { "#ff0000" }

commandOptions == << "M", "L", "V", "H", "C", "S", "Q", "T", "A", "Z" >>

\* the text of a path-data attribute
Str_M10_10_L20_20 == << "M", " ", "1", "0", " ", "1", "0", " ", "L", " ", "2", "0", " ", "2", "0" >>
Str_M5_5 == << "M", "5", " ", "5" >>

\* uploaded documents: the root element's attributes and the elements in
\* document order; a missing attribute is None, a numeric attribute is given
\* by what parseFloat reads from it
PathElem(d, fill, stroke) == [tag |-> "path", d |-> d, fill |-> fill, stroke |-> stroke]
RectElem(x, y, w, h, fill, stroke) ==
    [tag |-> "rect", x |-> x, y |-> y, width |-> w, height |-> h,
     fill |-> fill, stroke |-> stroke]
CircleElem(cx, cy, r, fill, stroke) ==
    [tag |-> "circle", cx |-> cx, cy |-> cy, r |-> r, fill |-> fill, stroke |-> stroke]

DocPaths ==
    [svg |-> TRUE, viewBox |-> Some(<<0, 0, 100, 100>>), width |-> None, height |-> None,
     elems |-> << PathElem(Some(Str_M10_10_L20_20), None, Some("#000000")),
                  PathElem(Some(Str_M5_5), None, None) >>]

DocRect ==
    [svg |-> TRUE, viewBox |-> None, width |-> None, height |-> None,
     elems |-> << [tag |-> "g"],
                  RectElem(Some(5), Some(5), Some(10), Some(10),
                           Some("#ff0000"), Some("#000000")) >>]

Docs == { DocPaths, DocRect }

\* the elements of the documents of the import specification: an unknown
\* element, a rect, a circle and a path with all attributes and with none, and
\* a circle with r="-5"
ImportElems ==
    { [tag |-> "g"],
      RectElem(Some(5), Some(5), Some(10), Some(10), Some("#ff0000"), Some("#000000")),
      RectElem(None, None, None, None, None, None),
      CircleElem(Some(1), Some(2), Some(3), Some("#ff0000"), Some("#000000")),
      CircleElem(None, None, None, None, None),
      CircleElem(Some(1), Some(2), Some(-5), None, None),
      PathElem(Some(Str_M5_5), Some("#ff0000"), Some("#000000")),
      PathElem(None, None, None) }

\* the sequences of at most n elements
RECURSIVE ElemSeqs(_)
ElemSeqs(n) ==
    IF n = 0 THEN { <<>> }
    ELSE ElemSeqs(n - 1)
         \cup { Append(es, e) : es \in ElemSeqs(n - 1), e \in ImportElems }

\* documents without a view frame, with every sequence of elements
ImportDocs ==
    { [svg |-> TRUE, viewBox |-> None, width |-> None, height |-> None, elems |-> es] :
        es \in ElemSeqs(MaxElems) }

\* documents without a view frame that hold one element of ImportElems
EmitDocs ==
    { [svg |-> TRUE, viewBox |-> None, width |-> None, height |-> None, elems |-> <<e>>] :
        e \in ImportElems }

\* a path command
Cmd(code, values) == [code |-> code, values |-> values]

\* the commands the path specification puts after the opening command: every
\* code the resolver knows, absolute and relative, some with two groups
PathCmds ==
    { Cmd("L", <<20, 20>>), Cmd("l", <<5, 5, 3, 3>>), Cmd("m", <<1, 1>>),
      Cmd("T", <<7, 8>>), Cmd("t", <<1, 1>>),
      Cmd("H", <<30>>), Cmd("h", <<5, 6>>), Cmd("V", <<30>>), Cmd("v", <<5, 6>>),
      Cmd("C", <<1, 2, 3, 4, 5, 6>>), Cmd("c", <<1, 2, 3, 4, 5, 6>>),
      Cmd("S", <<1, 2, 3, 4>>), Cmd("s", <<1, 2, 3, 4>>),
      Cmd("Q", <<1, 2, 3, 4>>), Cmd("q", <<1, 2, 3, 4>>),
      Cmd("A", <<1, 1, 0, 0, 1, 20, 20>>), Cmd("a", <<1, 1, 0, 0, 1, 5, 5>>),
      Cmd("Z", <<>>) }

\* the command sequences of the path specification: one command of PathCmds,
\* alone or after M 10 10
PathInputs ==
    { <<c>> : c \in PathCmds } \cup { <<Cmd("M", <<10, 10>>), c>> : c \in PathCmds }

\* the commands of the reload specification: those of PathCmds, a move to
\* negative coordinates, a line to (1e21, 5) and a relative arc with two groups
RoundTripCmds ==
    PathCmds \cup { Cmd("M", <<-3, 4>>), Cmd("L", <<Huge, 5>>),
                    Cmd("a", <<1, 1, 0, 0, 1, 5, 5, 2, 2, 0, 1, 0, 3, 4>>) }

\* the sequences of one to n commands of RoundTripCmds
RECURSIVE CmdSeqs(_)
CmdSeqs(n) ==
    IF n = 1 THEN { <<c>> : c \in RoundTripCmds }
    ELSE CmdSeqs(n - 1)
         \cup { Append(cs, c) : cs \in CmdSeqs(n - 1), c \in RoundTripCmds }

\* the command sequences of the reload specification
RoundTripInputs == CmdSeqs(MaxSeq)

\* an uploaded document that holds the one path whose text writes `commands`
PathDoc(commands) ==
    [svg |-> TRUE, viewBox |-> None, width |-> None, height |-> None,
     elems |-> << PathElem(Some(commandsToString(commands)), None, None) >>]

(* ------------------------------- state --------------------------------- *)
VARIABLES
    shapes,         \* useState<Shape[]>: the live shape list
    drawing,        \* useState<Shape | null>: the shape being drawn
    shapeType,      \* "rect" | "circle"
    color,          \* the draw colour
    history,        \* useState<Shape[][]>: the undo stack `past`
    future,         \* useState<Shape[][]>: the redo stack
    selectedId,     \* number | null
    draggingId,     \* number | null
    selectedPoint,  \* PathPoint | null
    draggingPoint,  \* PathPoint | null
    pointMenu,      \* {x, y} | null: the point menu is shown
    dragOffset,     \* useRef<{x, y} | null>
    idRef,          \* useRef(0): the id counter
    viewBox,        \* the viewBox attribute of the canvas element, or unset
    pending,        \* files handed to FileReader whose onload has not run
    error,          \* an exception escaped a handler
    button,         \* environment: the pointer button is held down
    lastOp,         \* observer: the last handler that ran and was observed
    trail,          \* observer: the live lists before each action of the current run
    undoing,        \* observer: the current run has reached its undos
    undone,         \* observer: the live list before the undo that ran last
    redone,         \* observer: the live list before the redo that followed that undo
    replaced,       \* observer: the live list that the import that ran last replaced
    overwritten,    \* observer: an import completed during the gesture in progress
    drawn,          \* observer: where the draw gesture in progress began and is now
    picked,         \* observer: the code picked in the point menu by the edit that ran last
    toggled,        \* observer: the live list before the SetRelative that ran last
    clicked,        \* observer: the live list at the press that was released at once
    unwound,        \* observer: the stores before each undo of the current undo/redo run
    events          \* observer: the number of events observed so far

prog == << shapes, drawing, shapeType, color, history, future, selectedId,
           draggingId, selectedPoint, draggingPoint, pointMenu, dragOffset,
           idRef, viewBox, pending, error, button >>

observer == << lastOp, trail, undoing, undone, redone, replaced, overwritten,
              drawn, picked, toggled, clicked, unwound, events >>

vars == << prog, observer >>

gesture == << drawing, draggingId, draggingPoint, dragOffset >>
selection == << selectedId, selectedPoint, pointMenu >>
tools == << shapeType, color >>
stacks == << history, future >>

\* the handlers that start a gesture or perform an immediate mutation
RecordingOps == { "onMouseDown", "onShapeMouseDown", "onPointMouseDown",
                  "fillOnChange", "strokeOnChange", "clear",
                  "handleInsert", "handleConvert", "handleSetRelative",
                  "handleDeletePoint" }

\* the pointer-downs on an existing shape or path point
PressOps == { "onShapeMouseDown", "onPointMouseDown" }

\* the handlers that carry on the gesture in progress
GestureOps == { "onMouseMove", "onMouseUp", "releaseOutside" }

\* The observer after handler `op`.  A handler that leaves the program state
\* as it is goes unobserved, unless it is undo or redo or a pointer-move of a
\* draw gesture to a new position.  `acted` tells whether a handler of
\* RecordingOps had a shape to mutate, `at` is the pointer position of a
\* pointer-down on the canvas or of a pointer-move, or the code picked for
\* Insert or Convert.
\* the entries of `unwound` that no redo has gone back to yet
NotRedone(run) == SelectSeq(run, LAMBDA e : ~e.back)

\* `unwound` after handler `op`: an undo that finds a snapshot adds the
\* stores it replaces, a redo that finds one marks the last entry not yet
\* gone back to, any other handler ends the run
Unwound(op) ==
    IF op = "undo"
    THEN (IF Len(history) = 0 THEN unwound
          ELSE Append(NotRedone(unwound),
                      [shapes |-> ByValue(shapes), history |-> AllByValue(history),
                       future |-> AllByValue(future), back |-> FALSE]))
    ELSE IF op = "redo"
    THEN (IF Len(future) = 0 \/ NotRedone(unwound) = <<>> THEN unwound
          ELSE [unwound EXCEPT ![Len(NotRedone(unwound))].back = TRUE])
    ELSE <<>>

ObserveAt(op, acted, at) ==
    IF /\ prog' = prog
       /\ op \notin {"undo", "redo"}
       /\ ~(op = "onMouseMove" /\ drawn # None /\ Some(drawn[1].to) # at)
    THEN UNCHANGED observer
    ELSE /\ events' = events + 1
         /\ lastOp' = op
         /\ undone' = IF op = "undo" /\ Len(history) > 0
                       THEN Some(ByValue(shapes)) ELSE None
         /\ redone' = IF op = "redo" /\ undone # None
                       THEN Some(ByValue(shapes)) ELSE None
         /\ replaced' = IF op = "onload" THEN Some(ByValue(shapes)) ELSE None
         /\ overwritten' = (button' = "down" /\ (op = "onload" \/ overwritten))
         /\ drawn' = IF op = "onMouseDown" THEN Some([from |-> at[1], to |-> at[1]])
                      ELSE IF op = "onMouseMove" /\ drawn # None
                      THEN Some([drawn[1] EXCEPT !.to = at[1]])
                      ELSE None
         /\ picked' = IF op \in {"handleInsert", "handleConvert"} /\ acted
                       THEN at ELSE None
         /\ unwound' = Unwound(op)
         /\ clicked' = IF op \in PressOps THEN Some(ByValue(shapes))
                        ELSE IF op = "onMouseUp" /\ lastOp \in PressOps THEN clicked
                        ELSE None
         /\ toggled' = IF op = "handleSetRelative" /\ acted THEN Some(ByValue(shapes))
                        ELSE IF op = "onKeyDown" THEN toggled
                        ELSE None
         /\ IF op \in RecordingOps /\ acted
            THEN /\ trail' = (IF undoing THEN <<>> ELSE trail) \o <<ByValue(shapes)>>
                 /\ undoing' = FALSE
            ELSE IF op \in GestureOps /\ button = "down"
            THEN UNCHANGED << trail, undoing >>
            ELSE IF op = "undo" /\ trail # <<>>
            THEN /\ trail' = SubSeq(trail, 1, Len(trail) - 1)
                 /\ undoing' = TRUE
            ELSE /\ trail' = <<>>
                 /\ undoing' = FALSE

Observe(op, acted) == ObserveAt(op, acted, None)

Init ==
    /\ shapes = <<>>
    /\ drawing = None
    /\ shapeType = "rect"
    /\ color = "#3b82f6"
    /\ history = <<>>
    /\ future = <<>>
    /\ selectedId = None
    /\ draggingId = None
    /\ selectedPoint = None
    /\ draggingPoint = None
    /\ pointMenu = None
    /\ dragOffset = None
    /\ idRef = 0
    /\ viewBox = None
    /\ pending = {}
    /\ error = FALSE
    /\ button = "up"
    /\ lastOp = "init"
    /\ trail = <<>>
    /\ undoing = FALSE
    /\ undone = None
    /\ redone = None
    /\ replaced = None
    /\ overwritten = FALSE
    /\ drawn = None
    /\ picked = None
    /\ toggled = None
    /\ clicked = None
    /\ unwound = <<>>
    /\ events = 0

\* the array identities in use
UsedRefs == RefsOf(shapes) \cup RefsOfAll(history) \cup RefsOfAll(future)

\* setHistory((prev) => [...prev, snapshot(shapes)]); setFuture([])
recordBeforeMutation ==
    /\ history' = Append(history, snapshot(shapes, UsedRefs))
    /\ future' = <<>>

\* the live list with the shapes selected by `test` replaced through `f`
MapShapes(list, test(_), f(_)) ==
    [i \in 1..Len(list) |-> IF test(list[i]) THEN f(list[i]) ELSE list[i]]

(* --------------------------- pointer handlers -------------------------- *)
\* pointer-down on the canvas background: start drawing a new shape
onMouseDown ==
    /\ events < MaxEvents
    /\ ~error
    /\ button = "up"
    /\ idRef < MaxId
    /\ Len(history) < MaxHist
    /\ pointMenu' = None
    /\ recordBeforeMutation
    /\ idRef' = idRef + 1
    /\ button' = "down"
    /\ UNCHANGED << tools, selectedId, selectedPoint, draggingId, draggingPoint,
                    dragOffset, viewBox, pending, error >>
    /\ \E p \in Positions :
          LET newShape == IF shapeType = "rect"
                          THEN RectShape(idRef, p[1], p[2], 0, 0, color, color)
                          ELSE CircleShape(idRef, p[1], p[2], 0, color, color)
          IN  /\ drawing' = Some(newShape)
              /\ shapes' = Append(shapes, newShape)
              /\ ObserveAt("onMouseDown", TRUE, Some(p))

\* pointer-down on a rendered shape: select it and, for rect and circle,
\* start dragging it
onShapeMouseDown ==
    /\ events < MaxEvents
    /\ ~error
    /\ button = "up"
    /\ Len(history) < MaxHist
    /\ \E i \in 1..Len(shapes), off \in GrabOffsets :
          LET shape == shapes[i]
          IN  /\ selectedId' = Some(shape.id)
              /\ IF shape.type = "rect"
                 THEN /\ dragOffset' = Some([x |-> Minus(Plus(shape.x, off[1]), shape.x),
                                             y |-> Minus(Plus(shape.y, off[2]), shape.y)])
                      /\ draggingId' = Some(shape.id)
                 ELSE IF shape.type = "circle"
                 THEN /\ dragOffset' = Some([x |-> Minus(Plus(shape.cx, off[1]), shape.cx),
                                             y |-> Minus(Plus(shape.cy, off[2]), shape.cy)])
                      /\ draggingId' = Some(shape.id)
                 ELSE /\ dragOffset' = dragOffset
                      /\ draggingId' = None
    /\ pointMenu' = None
    /\ recordBeforeMutation
    /\ button' = "down"
    /\ UNCHANGED << shapes, drawing, tools, selectedPoint, draggingPoint, idRef,
                    viewBox, pending, error >>
    /\ Observe("onShapeMouseDown", TRUE)

\* pointer-down on one of the point handles rendered for a path
onPointMouseDown ==
    /\ events < MaxEvents
    /\ ~error
    /\ button = "up"
    /\ Len(history) < MaxHist
    /\ \E i \in 1..Len(shapes), off \in GrabOffsets :
          /\ shapes[i].type = "path"
          /\ \E k \in 1..Len(getPathPoints(shapes[i].commands)) :
                LET point == getPathPoints(shapes[i].commands)[k]
                IN  /\ selectedId' = Some(shapes[i].id)
                    /\ selectedPoint' = Some(point)
                    /\ dragOffset' = Some([x |-> Minus(Plus(point.x, off[1]), point.x),
                                           y |-> Minus(Plus(point.y, off[2]), point.y)])
                    /\ draggingPoint' = Some(point)
    /\ pointMenu' = None
    /\ recordBeforeMutation
    /\ button' = "down"
    /\ UNCHANGED << shapes, drawing, tools, draggingId, idRef, viewBox, pending, error >>
    /\ Observe("onPointMouseDown", TRUE)

\* an in-place write to the commands array `ref`, seen through every shape of
\* `list` that holds that array
WriteThrough(list, ref, commands) ==
    [i \in 1..Len(list) |->
        IF list[i].type = "path" /\ list[i].ref = ref
        THEN [list[i] EXCEPT !.commands = commands] ELSE list[i]]

WriteThroughAll(lists, ref, commands) ==
    [i \in 1..Len(lists) |-> WriteThrough(lists[i], ref, commands)]

\* the first branch of onMouseMove: a path point is being dragged; the copy
\* `cmds` of the commands is a new array, which movePathPoint writes in place
MovePointBranch(p) ==
    LET nx == Minus(p[1], dragOffset[1].x)
        ny == Minus(p[2], dragOffset[1].y)
        hit(s) == selectedId = Some(s.id) /\ s.type = "path"
        cmds == FreshRef(UsedRefs, 1)
        moved(s) == movePathPoint(s.commands, draggingPoint[1], nx, ny)
        upd(s) == [s EXCEPT !.commands = moved(s).commands,
                            !.d = commandsToString(moved(s).commands),
                            !.ref = cmds]
        updated == [draggingPoint[1] EXCEPT !.x = nx, !.y = ny]
        hits == {i \in 1..Len(shapes) : hit(shapes[i])}
    IN  IF \E i \in hits : moved(shapes[i]).threw
        THEN /\ error' = TRUE
             /\ UNCHANGED << shapes, stacks, drawing, draggingPoint, selectedPoint >>
        ELSE /\ shapes' = MapShapes(shapes, hit, upd)
             /\ IF hits = {} THEN UNCHANGED stacks
                ELSE LET written == moved(shapes[CHOOSE i \in hits : TRUE]).commands
                     IN  /\ history' = WriteThroughAll(history, cmds, written)
                         /\ future' = WriteThroughAll(future, cmds, written)
             /\ draggingPoint' = Some(updated)
             /\ selectedPoint' = Some(updated)
             /\ UNCHANGED << drawing, error >>

\* the second branch: a rect or circle is being dragged
MoveShapeBranch(p) ==
    LET offset == dragOffset[1]
        hit(s) == draggingId = Some(s.id)
        upd(s) == IF s.type = "rect"
                  THEN [s EXCEPT !.x = Minus(p[1], offset.x), !.y = Minus(p[2], offset.y)]
                  ELSE [s EXCEPT !.cx = Minus(p[1], offset.x), !.cy = Minus(p[2], offset.y)]
    IN  /\ shapes' = MapShapes(shapes, hit, upd)
        /\ UNCHANGED << stacks, drawing, draggingPoint, selectedPoint, error >>

\* the last branch: a shape is being drawn
MoveDrawBranch(p) ==
    LET d == drawing[1]
        updated == IF d.type = "rect"
                   THEN [d EXCEPT !.width = Minus(p[1], d.x), !.height = Minus(p[2], d.y)]
                   ELSE [d EXCEPT !.r = Sqrt((p[1] - d.cx) * (p[1] - d.cx)
                                             + (p[2] - d.cy) * (p[2] - d.cy))]
        hit(s) == s.id = updated.id
        upd(s) == updated
    IN  /\ drawing' = Some(updated)
        /\ shapes' = MapShapes(shapes, hit, upd)
        /\ UNCHANGED << stacks, draggingPoint, selectedPoint, error >>

onMouseMove ==
    /\ events < MaxEvents
    /\ ~error
    /\ UNCHANGED << tools, selectedId, draggingId, pointMenu, dragOffset,
                    idRef, viewBox, pending, button >>
    /\ \E p \in Positions :
          /\ IF draggingPoint # None /\ dragOffset # None THEN MovePointBranch(p)
             ELSE IF draggingId # None /\ dragOffset # None THEN MoveShapeBranch(p)
             ELSE IF drawing # None THEN MoveDrawBranch(p)
             ELSE UNCHANGED << shapes, stacks, drawing, draggingPoint, selectedPoint, error >>
          /\ ObserveAt("onMouseMove", TRUE, Some(p))

\* pointer-up over the canvas
onMouseUp ==
    /\ events < MaxEvents
    /\ ~error
    /\ button = "down"
    /\ IF drawing # None
       THEN LET d == drawing[1]
                hit(s) == s.id = d.id
                upd(s) == IF d.type = "rect"
                          THEN [d EXCEPT !.x = Min(d.x, d.x + d.width),
                                         !.y = Min(d.y, d.y + d.height),
                                         !.width = Abs(d.width),
                                         !.height = Abs(d.height)]
                          ELSE [d EXCEPT !.r = Abs(d.r)]
            IN  shapes' = MapShapes(shapes, hit, upd)
       ELSE shapes' = shapes
    /\ drawing' = None
    /\ draggingId' = None
    /\ draggingPoint' = None
    /\ dragOffset' = None
    /\ button' = "up"
    /\ UNCHANGED << tools, stacks, selection, idRef, viewBox, pending, error >>
    /\ Observe("onMouseUp", TRUE)

\* the pointer leaves the canvas with the button held and is released outside
\* it: the canvas element has no handler for either event (lines 652-658)
releaseOutside ==
    /\ events < MaxEvents
    /\ ~error
    /\ button = "down"
    /\ button' = "up"
    /\ UNCHANGED << shapes, gesture, tools, stacks, selection, idRef, viewBox,
                    pending, error >>
    /\ Observe("releaseOutside", TRUE)

(* ---------------------- PathEditor: structural edits ------------------- *)
\* the shape an edit of the point menu rewrites: s.id === selectedId and path
IsSelectedPath(s) == selectedId = Some(s.id) /\ s.type = "path"

\* a path with the edited copy `cmds` of its commands (a new array) and the
\* cached text regenerated from it
WithCommands(s, cmds) ==
    [s EXCEPT !.commands = cmds, !.d = commandsToString(cmds),
              !.ref = FreshRef(UsedRefs, 1)]

\* keydown "e": open the point menu at the selected point
onKeyDown ==
    /\ events < MaxEvents
    /\ ~error
    /\ IF selectedPoint # None
       THEN pointMenu' = Some([x |-> selectedPoint[1].x, y |-> selectedPoint[1].y])
       ELSE pointMenu' = pointMenu
    /\ UNCHANGED << shapes, gesture, tools, stacks, selectedId, selectedPoint,
                    idRef, viewBox, pending, error, button >>
    /\ Observe("onKeyDown", TRUE)

\* a point-menu handler has a path to rewrite
EditActs ==
    /\ selectedPoint # None
    /\ \E i \in 1..Len(shapes) : IsSelectedPath(shapes[i])

\* the frame of the four point-menu handlers
EditFrame ==
    UNCHANGED << gesture, tools, stacks, selectedId, idRef, viewBox, pending, button >>

InsertedCommands(commands, point, code) ==
    SpliceIn(commands, point.cmdIndex + 1, [code |-> code, values |-> <<point.x, point.y>>])

handleInsert ==
    /\ events < MaxEvents
    /\ ~error
    /\ button = "up"
    /\ pointMenu # None
    /\ \A i \in 1..Len(shapes) :
          IsSelectedPath(shapes[i]) => Len(shapes[i].commands) < MaxCmds
    /\ UNCHANGED << selectedPoint, error >>
    /\ EditFrame
    /\ \E c \in 1..Len(commandOptions) :
          /\ IF selectedPoint = None \/ selectedId = None
             THEN UNCHANGED << shapes, pointMenu >>
             ELSE LET upd(s) == WithCommands(s, InsertedCommands(s.commands, selectedPoint[1],
                                                                 commandOptions[c]))
                  IN  /\ shapes' = MapShapes(shapes, IsSelectedPath, upd)
                      /\ pointMenu' = None
          /\ ObserveAt("handleInsert", EditActs, Some(commandOptions[c]))

ConvertedValues(code, point) ==
    LET upper == toUpperCase(code)
    IN  IF upper = "H" THEN <<point.x>>
        ELSE IF upper = "V" THEN <<point.y>>
        ELSE IF upper = "Z" THEN <<>>
        ELSE <<point.x, point.y>>

ConvertedCommands(commands, point, code) ==
    [commands EXCEPT ![point.cmdIndex + 1] =
        [code |-> code, values |-> ConvertedValues(code, point)]]

\* an edit that looks the selected path up and reads its commands unguarded
EditThrowsUnlessFound ==
    /\ selectedPoint # None
    /\ \A i \in 1..Len(shapes) :
          IsSelectedPath(shapes[i]) => selectedPoint[1].cmdIndex >= Len(shapes[i].commands)

\* cmds[selectedPoint.cmdIndex] is undefined: writing or reading its code
\* raises a TypeError inside the state updater
EditThrows ==
    /\ selectedPoint # None
    /\ \E i \in 1..Len(shapes) :
          /\ IsSelectedPath(shapes[i])
          /\ selectedPoint[1].cmdIndex >= Len(shapes[i].commands)

handleConvert ==
    /\ events < MaxEvents
    /\ ~error
    /\ button = "up"
    /\ pointMenu # None
    /\ UNCHANGED selectedPoint
    /\ EditFrame
    /\ \E c \in 1..Len(commandOptions) :
          /\ IF selectedPoint = None \/ selectedId = None
             THEN UNCHANGED << shapes, pointMenu, error >>
             ELSE IF EditThrows
             THEN error' = TRUE /\ UNCHANGED << shapes, pointMenu >>
             ELSE LET upd(s) == WithCommands(s, ConvertedCommands(s.commands, selectedPoint[1],
                                                                  commandOptions[c]))
                  IN  /\ shapes' = MapShapes(shapes, IsSelectedPath, upd)
                      /\ pointMenu' = None
                      /\ error' = error
          /\ ObserveAt("handleConvert", EditActs, Some(commandOptions[c]))

ToggledCode(code) ==
    IF code = toUpperCase(code) THEN toLowerCase(code) ELSE toUpperCase(code)

ToggledCommands(commands, point) ==
    [commands EXCEPT ![point.cmdIndex + 1].code = ToggledCode(@)]

handleSetRelative ==
    /\ events < MaxEvents
    /\ ~error
    /\ button = "up"
    /\ pointMenu # None
    /\ IF selectedPoint = None \/ selectedId = None
       THEN UNCHANGED << shapes, pointMenu, error >>
       ELSE IF EditThrows
       THEN error' = TRUE /\ UNCHANGED << shapes, pointMenu >>
       ELSE LET upd(s) == WithCommands(s, ToggledCommands(s.commands, selectedPoint[1]))
            IN  /\ shapes' = MapShapes(shapes, IsSelectedPath, upd)
                /\ pointMenu' = None
                /\ error' = error
    /\ UNCHANGED selectedPoint
    /\ EditFrame
    /\ Observe("handleSetRelative", EditActs)

handleDeletePoint ==
    /\ events < MaxEvents
    /\ ~error
    /\ button = "up"
    /\ pointMenu # None
    /\ IF selectedPoint = None \/ selectedId = None
       THEN UNCHANGED << shapes, pointMenu, selectedPoint >>
       ELSE LET upd(s) == WithCommands(s, SpliceOut(s.commands, selectedPoint[1].cmdIndex))
            IN  /\ shapes' = MapShapes(shapes, IsSelectedPath, upd)
                /\ selectedPoint' = None
                /\ pointMenu' = None
    /\ UNCHANGED error
    /\ EditFrame
    /\ Observe("handleDeletePoint", EditActs)

(* ------------------------- ShapeStore, toolbar ------------------------- *)
\* a clear that records history on an empty list too
clearAlwaysRecording ==
    /\ events < MaxEvents
    /\ ~error
    /\ button = "up"
    /\ Len(history) < MaxHist /\ recordBeforeMutation
    /\ shapes' = <<>>
    /\ viewBox' = None
    /\ UNCHANGED << gesture, tools, selection, idRef, pending, error, button >>
    /\ Observe("clear", Len(shapes) # 0)

clear ==
    /\ events < MaxEvents
    /\ ~error
    /\ button = "up"
    /\ IF Len(shapes) # 0
       THEN Len(history) < MaxHist /\ recordBeforeMutation
       ELSE UNCHANGED stacks
    /\ shapes' = <<>>
    /\ viewBox' = None
    /\ UNCHANGED << gesture, tools, selection, idRef, pending, error, button >>
    /\ Observe("clear", Len(shapes) # 0)

\* the layer list: click on the entry of a shape
selectLayer ==
    /\ events < MaxEvents
    /\ ~error
    /\ button = "up"
    /\ \E i \in 1..Len(shapes) : selectedId' = Some(shapes[i].id)
    /\ UNCHANGED << shapes, gesture, tools, stacks, selectedPoint, pointMenu,
                    idRef, viewBox, pending, error, button >>
    /\ Observe("selectLayer", TRUE)

\* the Close button of the shape tools panel, shown while selectedShape exists
closeTools ==
    /\ events < MaxEvents
    /\ ~error
    /\ button = "up"
    /\ \E i \in 1..Len(shapes) : selectedId = Some(shapes[i].id)
    /\ selectedId' = None
    /\ UNCHANGED << shapes, gesture, tools, stacks, selectedPoint, pointMenu,
                    idRef, viewBox, pending, error, button >>
    /\ Observe("closeTools", TRUE)

setShapeType ==
    /\ events < MaxEvents
    /\ ~error
    /\ button = "up"
    /\ \E t \in {"rect", "circle"} : t # shapeType /\ shapeType' = t
    /\ UNCHANGED << shapes, gesture, color, stacks, selection, idRef, viewBox,
                    pending, error, button >>
    /\ Observe("setShapeType", TRUE)

\* onChange of the Fill input of the shape tools panel
fillOnChange ==
    /\ events < MaxEvents
    /\ ~error
    /\ button = "up"
    /\ Len(history) < MaxHist
    /\ \E i \in 1..Len(shapes), value \in Colors :
          /\ selectedId = Some(shapes[i].id)
          /\ LET hit(s) == s.id = shapes[i].id
                 upd(s) == [s EXCEPT !.fill = value]
             IN  shapes' = MapShapes(shapes, hit, upd)
    /\ recordBeforeMutation
    /\ UNCHANGED << gesture, tools, selection, idRef, viewBox, pending, error, button >>
    /\ Observe("fillOnChange", TRUE)

\* onChange of the Stroke input
strokeOnChange ==
    /\ events < MaxEvents
    /\ ~error
    /\ button = "up"
    /\ Len(history) < MaxHist
    /\ \E i \in 1..Len(shapes), value \in Colors :
          /\ selectedId = Some(shapes[i].id)
          /\ LET hit(s) == s.id = shapes[i].id
                 upd(s) == [s EXCEPT !.stroke = value]
             IN  shapes' = MapShapes(shapes, hit, upd)
    /\ recordBeforeMutation
    /\ UNCHANGED << gesture, tools, selection, idRef, viewBox, pending, error, button >>
    /\ Observe("strokeOnChange", TRUE)

(* ---------------------------- HistoryManager --------------------------- *)
\* shapes, history and future as a handler leaves them
Stores(s, h, f) == [shapes |-> s, history |-> h, future |-> f]

\* undo that pushes the snapshot onto future before it looks at the past
UndoResultPushesFirst(list, past, fut, used) ==
    IF Len(past) = 0 THEN [shapes |-> list, history |-> past,
                           future |-> <<snapshot(list, used)>> \o fut]
    ELSE [shapes |-> past[Len(past)], history |-> SubSeq(past, 1, Len(past) - 1),
          future |-> <<snapshot(list, used)>> \o fut]

\* undo that takes the oldest snapshot of the past
UndoResultTakesFirst(list, past, fut, used) ==
    IF Len(past) = 0 THEN [shapes |-> list, history |-> past, future |-> fut]
    ELSE [shapes |-> past[1], history |-> Tail(past),
          future |-> <<snapshot(list, used)>> \o fut]

\* undo(): nothing on an empty past; else the last snapshot of the past becomes
\* the live list and a snapshot of the live list goes to the front of future
UndoResult(list, past, fut, used) ==
    IF Len(past) = 0 THEN Stores(list, past, fut)
    ELSE Stores(past[Len(past)], SubSeq(past, 1, Len(past) - 1),
                <<snapshot(list, used)>> \o fut)

\* redo that takes the last snapshot of future, as undo does of the past
RedoResultTakesLast(list, past, fut, used) ==
    IF Len(fut) = 0 THEN [shapes |-> list, history |-> past, future |-> fut]
    ELSE [shapes |-> fut[Len(fut)], history |-> Append(past, snapshot(list, used)),
          future |-> SubSeq(fut, 1, Len(fut) - 1)]

\* redo(): nothing on an empty future; else the first snapshot of future
\* becomes the live list and a snapshot of the live list is appended to past
RedoResult(list, past, fut, used) ==
    IF Len(fut) = 0 THEN Stores(list, past, fut)
    ELSE Stores(fut[1], Append(past, snapshot(list, used)), SubSeq(fut, 2, Len(fut)))

undo ==
    /\ events < MaxEvents
    /\ ~error
    /\ button = "up"
    /\ LET r == UndoResult(shapes, history, future, UsedRefs)
       IN  /\ shapes' = r.shapes
           /\ history' = r.history
           /\ future' = r.future
    /\ UNCHANGED << gesture, tools, selection, idRef, viewBox, pending, error, button >>
    /\ Observe("undo", TRUE)

redo ==
    /\ events < MaxEvents
    /\ ~error
    /\ button = "up"
    /\ LET r == RedoResult(shapes, history, future, UsedRefs)
       IN  /\ shapes' = r.shapes
           /\ history' = r.history
           /\ future' = r.future
    /\ UNCHANGED << gesture, tools, selection, idRef, viewBox, pending, error, button >>
    /\ Observe("redo", TRUE)

(* ----------------------------- MarkupBridge ---------------------------- *)
\* el.getAttribute(name) || dflt
AttrOr(a, dflt) == IF a = None THEN dflt ELSE a[1]

IsRect(e) == e.tag = "rect"
IsCircle(e) == e.tag = "circle"
IsPath(e) == e.tag = "path"

\* doc.querySelectorAll(tag), in document order
Rects(doc) == SelectSeq(doc.elems, IsRect)
\* an import that reads no circle element
CirclesIgnored(doc) == <<>>

Circles(doc) == SelectSeq(doc.elems, IsCircle)
Paths(doc) == SelectSeq(doc.elems, IsPath)

\* the list `loaded` built by the onload callback, ids starting at id0
Loaded(doc, id0, used) ==
    LET rs == Rects(doc)
        cs == Circles(doc)
        ps == Paths(doc)
    IN  [i \in 1..Len(rs) |->
            RectShape(id0 + i - 1, AttrOr(rs[i].x, 0), AttrOr(rs[i].y, 0),
                      AttrOr(rs[i].width, 0), AttrOr(rs[i].height, 0),
                      AttrOr(rs[i].fill, "transparent"), AttrOr(rs[i].stroke, "black"))]
        \o
        [i \in 1..Len(cs) |->
            CircleShape(id0 + Len(rs) + i - 1, AttrOr(cs[i].cx, 0), AttrOr(cs[i].cy, 0),
                        AttrOr(cs[i].r, 0),
                        AttrOr(cs[i].fill, "transparent"), AttrOr(cs[i].stroke, "black"))]
        \o
        [i \in 1..Len(ps) |->
            PathShape(id0 + Len(rs) + Len(cs) + i - 1,
                      parsePath(AttrOr(ps[i].d, <<>>)), AttrOr(ps[i].d, <<>>),
                      AttrOr(ps[i].fill, "transparent"), AttrOr(ps[i].stroke, "black"),
                      FreshRef(used, i))]

\* the callback forgets to store the counter back
LoadedIdRefStale(id0, loaded) == id0

\* idRef.current = id: the counter after the callback
LoadedIdRef(id0, loaded) == id0 + Len(loaded)

\* the viewBox attribute of the canvas after the callback
LoadedViewBox(doc, old) ==
    IF ~doc.svg THEN old
    ELSE IF doc.viewBox # None THEN doc.viewBox
    ELSE IF doc.width # None /\ doc.height # None
            /\ doc.width[1] # NaN /\ doc.height[1] # NaN
         THEN Some(<<0, 0, doc.width[1], doc.height[1]>>)
    ELSE old

\* handleFile: hand the file to the FileReader; onload runs later
handleFile ==
    /\ events < MaxEvents
    /\ ~error
    /\ button = "up"
    /\ Cardinality(pending) < MaxPending
    /\ \E doc \in Docs : doc \notin pending /\ pending' = pending \cup {doc}
    /\ UNCHANGED << shapes, gesture, tools, stacks, selection, idRef, viewBox,
                    error, button >>
    /\ Observe("handleFile", TRUE)

\* an import that records history as the mutating handlers do
onloadRecording ==
    /\ events < MaxEvents
    /\ ~error
    /\ \E doc \in pending :
          LET loaded == Loaded(doc, idRef, UsedRefs \cup RefsOf(snapshot(shapes, UsedRefs)))
          IN  /\ idRef + Len(loaded) <= MaxId
              /\ pending' = pending \ {doc}
              /\ idRef' = LoadedIdRef(idRef, loaded)
              /\ viewBox' = LoadedViewBox(doc, viewBox)
              /\ shapes' = loaded
    /\ recordBeforeMutation
    /\ UNCHANGED << gesture, tools, selection, error, button >>
    /\ Observe("onload", TRUE)

\* an import that numbers the shapes of every document from 0
onloadRestartingIds ==
    /\ events < MaxEvents
    /\ ~error
    /\ \E doc \in pending :
          LET loaded == Loaded(doc, 0, UsedRefs)
          IN  /\ idRef + Len(loaded) <= MaxId
              /\ pending' = pending \ {doc}
              /\ idRef' = LoadedIdRef(idRef, loaded)
              /\ viewBox' = LoadedViewBox(doc, viewBox)
              /\ shapes' = loaded
    /\ UNCHANGED << gesture, tools, stacks, selection, error, button >>
    /\ Observe("onload", TRUE)

\* reader.onload: the file has been read
onload ==
    /\ events < MaxEvents
    /\ ~error
    /\ \E doc \in pending :
          LET loaded == Loaded(doc, idRef, UsedRefs)
          IN  /\ idRef + Len(loaded) <= MaxId
              /\ pending' = pending \ {doc}
              /\ idRef' = LoadedIdRef(idRef, loaded)
              /\ viewBox' = LoadedViewBox(doc, viewBox)
              /\ shapes' = loaded
    /\ UNCHANGED << gesture, tools, stacks, selection, error, button >>
    /\ Observe("onload", TRUE)

(* ------------------------- rendering and export ----------------------- *)
\* a shape written with the attributes it is stored with
EmittedAsStored(s) ==
    IF s.type = "rect"
    THEN [tag |-> "rect", x |-> s.x, y |-> s.y, width |-> s.width, height |-> s.height,
          fill |-> s.fill, stroke |-> s.stroke]
    ELSE IF s.type = "circle"
    THEN [tag |-> "circle", cx |-> s.cx, cy |-> s.cy, r |-> s.r,
          fill |-> s.fill, stroke |-> s.stroke]
    ELSE [tag |-> "path", d |-> s.d, fill |-> s.fill, stroke |-> s.stroke]

\* the element the canvas holds for a shape
Emitted(s) ==
    IF s.type = "rect"
    THEN [tag |-> "rect", x |-> Min(s.x, s.x + s.width), y |-> Min(s.y, s.y + s.height),
          width |-> Abs(s.width), height |-> Abs(s.height),
          fill |-> s.fill, stroke |-> s.stroke]
    ELSE IF s.type = "circle"
    THEN [tag |-> "circle", cx |-> s.cx, cy |-> s.cy, r |-> Abs(s.r),
          fill |-> s.fill, stroke |-> s.stroke]
    ELSE [tag |-> "path", d |-> s.d, fill |-> s.fill, stroke |-> s.stroke]

\* the shape elements of the document that download serializes from the canvas
Exported(list) == [i \in 1..Len(list) |-> Emitted(list[i])]

\* the path data of the two grid patterns of the canvas
Str_M20_0_L0_0_0_20 == << "M", " ", "2", "0", " ", "0", " ", "L", " ", "0", " ", "0", " ", "0", " ", "2", "0" >>
Str_M100_0_L0_0_0_100 == << "M", " ", "1", "0", "0", " ", "0", " ", "L", " ", "0", " ", "0", " ", "0", " ", "1", "0", "0" >>

\* the elements of <defs> and the background rect, in document order; the
\* width="100%" of the background rect is what parseFloat reads from it
GridElems ==
    << PathElem(Some(Str_M20_0_L0_0_0_20), Some("none"), Some("#e5e7eb")),
       RectElem(None, None, Some(100), Some(100), Some("url(#small-grid)"), None),
       PathElem(Some(Str_M100_0_L0_0_0_100), Some("none"), Some("#d1d5db")),
       RectElem(None, None, Some(100), Some(100), Some("url(#grid)"), None) >>

\* the handle the canvas draws at a point of a path
HandleElem(pt) == CircleElem(Some(pt.x), Some(pt.y), Some(4), Some("white"), Some("black"))

\* the elements the canvas holds for one shape, as XMLSerializer writes them:
\* the shape and, for a path, one handle for each of its points
ShapeElems(s) ==
    LET e == Emitted(s)
    IN  IF s.type = "rect"
        THEN << RectElem(Some(e.x), Some(e.y), Some(e.width), Some(e.height),
                         Some(e.fill), Some(e.stroke)) >>
        ELSE IF s.type = "circle"
        THEN << CircleElem(Some(e.cx), Some(e.cy), Some(e.r), Some(e.fill), Some(e.stroke)) >>
        ELSE << PathElem(Some(e.d), Some(e.fill), Some(e.stroke)) >>
             \o [j \in 1..Len(getPathPoints(s.commands)) |->
                    HandleElem(getPathPoints(s.commands)[j])]

RECURSIVE AllShapeElems(_)
AllShapeElems(list) ==
    IF list = <<>> THEN <<>>
    ELSE ShapeElems(Head(list)) \o AllShapeElems(Tail(list))

\* the document download writes: the canvas element with the view frame the
\* last import set on it, the grid and the shapes
CanvasDoc(list, frame) ==
    [svg |-> TRUE, viewBox |-> frame, width |-> None, height |-> None,
     elems |-> GridElems \o AllShapeElems(list)]

\* download, and the downloaded file dropped on the editor again
downloadAndReopen ==
    /\ events < MaxEvents
    /\ ~error
    /\ button = "up"
    /\ Cardinality(pending) < MaxPending
    /\ pending' = pending \cup {CanvasDoc(shapes, viewBox)}
    /\ UNCHANGED << shapes, gesture, tools, stacks, selection, idRef, viewBox,
                    error, button >>
    /\ Observe("download", TRUE)

Next ==
    \/ onMouseDown
    \/ onShapeMouseDown
    \/ onPointMouseDown
    \/ onMouseMove
    \/ onMouseUp
    \/ releaseOutside
    \/ onKeyDown
    \/ handleInsert
    \/ handleConvert
    \/ handleSetRelative
    \/ handleDeletePoint
    \/ clear
    \/ selectLayer
    \/ closeTools
    \/ setShapeType
    \/ fillOnChange
    \/ strokeOnChange
    \/ undo
    \/ redo
    \/ handleFile
    \/ onload

Spec == Init /\ [][Next]_vars

\* the handler `A` in a run that has seen fewer than MaxBrief events
Brief(A) == events < MaxBrief /\ A

BriefNext ==
    \/ Brief(onMouseDown)
    \/ Brief(onShapeMouseDown)
    \/ Brief(onPointMouseDown)
    \/ Brief(onMouseMove)
    \/ Brief(onMouseUp)
    \/ Brief(releaseOutside)
    \/ Brief(onKeyDown)
    \/ Brief(handleInsert)
    \/ Brief(handleConvert)
    \/ Brief(handleSetRelative)
    \/ Brief(handleDeletePoint)
    \/ Brief(clear)
    \/ Brief(selectLayer)
    \/ Brief(closeTools)
    \/ Brief(setShapeType)
    \/ Brief(fillOnChange)
    \/ Brief(strokeOnChange)
    \/ Brief(undo)
    \/ Brief(redo)
    \/ Brief(handleFile)
    \/ Brief(onload)

\* the runs of Spec of at most MaxBrief events
SpecBrief == Init /\ [][BriefNext]_vars

\* the editor with an empty canvas, some ids already handed out and one
\* uploaded document being read
InitImport ==
    /\ shapes = <<>>
    /\ drawing = None
    /\ shapeType = "rect"
    /\ color = "#3b82f6"
    /\ history = <<>>
    /\ future = <<>>
    /\ selectedId = None
    /\ draggingId = None
    /\ selectedPoint = None
    /\ draggingPoint = None
    /\ pointMenu = None
    /\ dragOffset = None
    /\ idRef \in 0..MaxId
    /\ viewBox = None
    /\ \E doc \in ImportDocs : pending = {doc}
    /\ error = FALSE
    /\ button = "up"
    /\ lastOp = "handleFile"
    /\ trail = <<>>
    /\ undoing = FALSE
    /\ undone = None
    /\ redone = None
    /\ replaced = None
    /\ overwritten = FALSE
    /\ drawn = None
    /\ picked = None
    /\ toggled = None
    /\ clicked = None
    /\ unwound = <<>>
    /\ events = 0

\* the import callback on every document of ImportDocs
SpecImport == InitImport /\ [][onload]_vars

\* the empty editor while it reads a file with one element
InitEmit ==
    /\ shapes = <<>>
    /\ drawing = None
    /\ shapeType = "rect"
    /\ color = "#3b82f6"
    /\ history = <<>>
    /\ future = <<>>
    /\ selectedId = None
    /\ draggingId = None
    /\ selectedPoint = None
    /\ draggingPoint = None
    /\ pointMenu = None
    /\ dragOffset = None
    /\ idRef = 0
    /\ viewBox = None
    /\ \E doc \in EmitDocs : pending = {doc}
    /\ error = FALSE
    /\ button = "up"
    /\ lastOp = "handleFile"
    /\ trail = <<>>
    /\ undoing = FALSE
    /\ undone = None
    /\ redone = None
    /\ replaced = None
    /\ overwritten = FALSE
    /\ drawn = None
    /\ picked = None
    /\ toggled = None
    /\ clicked = None
    /\ unwound = <<>>
    /\ events = 0

\* the handler `A` in a run that has seen fewer than MaxEmitEvents events
EmitStep(A) == events < MaxEmitEvents /\ A

EmitNext ==
    \/ EmitStep(onload)
    \/ EmitStep(setShapeType)
    \/ EmitStep(onMouseDown)
    \/ EmitStep(onMouseMove)
    \/ EmitStep(onMouseUp)

\* an import and draw gestures, with the canvas rendered in every state
SpecEmit == InitEmit /\ [][EmitNext]_vars

\* the handler `A` in a run that has seen fewer than MaxExportEvents events
ExportStep(A) == events < MaxExportEvents /\ A

ExportNext ==
    \/ ExportStep(setShapeType)
    \/ ExportStep(onMouseDown)
    \/ ExportStep(onMouseMove)
    \/ ExportStep(onMouseUp)
    \/ ExportStep(downloadAndReopen)
    \/ ExportStep(onload)

\* draw gestures, export and import of the exported document
SpecExport == Init /\ [][ExportNext]_vars

\* the empty editor while it reads a file whose one path has the text that
\* commandsToString writes for a command sequence
InitReload ==
    /\ shapes = <<>>
    /\ drawing = None
    /\ shapeType = "rect"
    /\ color = "#3b82f6"
    /\ history = <<>>
    /\ future = <<>>
    /\ selectedId = None
    /\ draggingId = None
    /\ selectedPoint = None
    /\ draggingPoint = None
    /\ pointMenu = None
    /\ dragOffset = None
    /\ idRef = 0
    /\ viewBox = None
    /\ \E commands \in RoundTripInputs : pending = {PathDoc(commands)}
    /\ error = FALSE
    /\ button = "up"
    /\ lastOp = "handleFile"
    /\ trail = <<>>
    /\ undoing = FALSE
    /\ undone = None
    /\ redone = None
    /\ replaced = None
    /\ overwritten = FALSE
    /\ drawn = None
    /\ picked = None
    /\ toggled = None
    /\ clicked = None
    /\ unwound = <<>>
    /\ events = 0

\* the import callback on the text of every sequence of RoundTripInputs
SpecReload == InitReload /\ [][onload]_vars

(* --------------------- the parser on arbitrary text -------------------- *)
\* the characters of the path texts: two letters, a digit, a sign and the
\* two separators
TextChars == {"M", "l", "1", "-", " ", ","}

\* the texts of at most n characters
RECURSIVE Texts(_)
Texts(n) ==
    IF n = 0 THEN {<<>>}
    ELSE Texts(n - 1) \cup
         {Append(t, ch) : t \in {u \in Texts(n - 1) : Len(u) = n - 1}, ch \in TextChars}

TextInputs == Texts(MaxText)

\* a document with one path element whose d attribute is the text
TextDoc(d) ==
    [svg |-> TRUE, viewBox |-> None, width |-> None, height |-> None,
     elems |-> << PathElem(Some(d), None, None) >>]

InitParse ==
    /\ shapes = <<>>
    /\ drawing = None
    /\ shapeType = "rect"
    /\ color = "#3b82f6"
    /\ history = <<>>
    /\ future = <<>>
    /\ selectedId = None
    /\ draggingId = None
    /\ selectedPoint = None
    /\ draggingPoint = None
    /\ pointMenu = None
    /\ dragOffset = None
    /\ idRef = 0
    /\ viewBox = None
    /\ \E d \in TextInputs : pending = {TextDoc(d)}
    /\ error = FALSE
    /\ button = "up"
    /\ lastOp = "handleFile"
    /\ trail = <<>>
    /\ undoing = FALSE
    /\ undone = None
    /\ redone = None
    /\ replaced = None
    /\ overwritten = FALSE
    /\ drawn = None
    /\ picked = None
    /\ toggled = None
    /\ clicked = None
    /\ unwound = <<>>
    /\ events = 0

\* the import callback on every text of TextInputs
SpecParse == InitParse /\ [][onload]_vars

\* the editor after the import of a document with one path
InitPath ==
    /\ \E commands \in PathInputs : shapes = Loaded(PathDoc(commands), 0, {})
    /\ drawing = None
    /\ shapeType = "rect"
    /\ color = "#3b82f6"
    /\ history = <<>>
    /\ future = <<>>
    /\ selectedId = None
    /\ draggingId = None
    /\ selectedPoint = None
    /\ draggingPoint = None
    /\ pointMenu = None
    /\ dragOffset = None
    /\ idRef = 1
    /\ viewBox = None
    /\ pending = {}
    /\ error = FALSE
    /\ button = "up"
    /\ lastOp = "onload"
    /\ trail = <<>>
    /\ undoing = FALSE
    /\ undone = None
    /\ redone = None
    /\ replaced = Some(<<>>)
    /\ overwritten = FALSE
    /\ drawn = None
    /\ picked = None
    /\ toggled = None
    /\ clicked = None
    /\ unwound = <<>>
    /\ events = 0

\* the handler `A` in a run that has seen fewer than MaxPathEvents events
PathStep(A) == events < MaxPathEvents /\ A

PathNext ==
    \/ PathStep(onPointMouseDown)
    \/ PathStep(onMouseMove)
    \/ PathStep(onMouseUp)
    \/ PathStep(onKeyDown)
    \/ PathStep(handleInsert)

\* point drags and insertions on every path of PathInputs
SpecPath == InitPath /\ [][PathNext]_vars

(* ======================================================================= *)
(*                               Properties                                *)
(* ======================================================================= *)
EditOps == { "handleInsert", "handleConvert", "handleSetRelative", "handleDeletePoint" }

\* the step is an observed run of handler `op`
StepOf(op) == events' = events + 1 /\ lastOp' = op

\* the step is a user-initiated mutating action that ran to its end: a gesture
\* start, a colour change, a clear of a non-empty list or a point-menu edit
\* of an existing path
MutatingStep ==
    /\ events' = events + 1
    /\ lastOp' \in RecordingOps
    /\ ~error'
    /\ lastOp' \in EditOps => EditActs
    /\ lastOp' = "clear" => Len(shapes) # 0

AllLists == <<shapes>> \o history \o future

PathsOf(list) == {list[i] : i \in {j \in 1..Len(list) : list[j].type = "path"}}

IdsOf(list) == {list[i].id : i \in 1..Len(list)}

\* C1: history round-trip.  After N mutating actions followed by N undos the
\* live list is the list that was live before the first action; stated for
\* every undo of such a run: it restores the list that was live before the
\* action it takes back (the top of the observer's trail).
C1_HistoryRoundTrip ==
    [][(StepOf("undo") /\ trail # <<>>) => ByValue(shapes') = trail[Len(trail)]]_vars

\* C2: after any user-initiated mutating action the redo stack is empty.
C2_FutureEmptyAfterMutation ==
    [][MutatingStep => future' = <<>>]_vars

\* C3: with a non-empty past, undo followed immediately by redo leaves the live
\* list equal by value to the list just before the undo.
C3_UndoRedoRestores ==
    [][(undone # None /\ StepOf("redo")) => ByValue(shapes') = undone[1]]_vars

\* C3 witness: a redo has just followed an undo that changed the live list,
\* and the list holds a path again.
C3_Witness ==
    /\ lastOp = "redo"
    /\ redone # None
    /\ redone[1] # ByValue(shapes)
    /\ PathsOf(shapes) # {}

\* C4: every user-initiated mutating action pushes exactly one copy of the
\* live list, as it was before the action, onto the end of the past.
C4_RecordsBeforeMutation ==
    [][MutatingStep =>
          AllByValue(history') = Append(AllByValue(history), ByValue(shapes))]_vars

\* the point reference lies inside the commands: its command exists and its
\* parameter offset lies inside that command's values
InBounds(point, commands) ==
    /\ point.cmdIndex < Len(commands)
    /\ point.valueIndex < Len(commands[point.cmdIndex + 1].values)

\* C5: whenever Insert, Convert, SetRelative, Delete or a point move uses the
\* selected (dragged) point reference on the selected path, the reference is
\* in bounds of that path's current commands.
C5_PointRefInBounds ==
    [][/\ ((events' = events + 1 /\ lastOp' \in EditOps /\ EditActs) =>
              \A i \in 1..Len(shapes) :
                 IsSelectedPath(shapes[i]) => InBounds(selectedPoint[1], shapes[i].commands))
       /\ ((StepOf("onMouseMove") /\ draggingPoint # None /\ dragOffset # None) =>
              \A i \in 1..Len(shapes) :
                 IsSelectedPath(shapes[i]) => InBounds(draggingPoint[1], shapes[i].commands))
      ]_vars

\* C6: the cached text d of every path, in the live list and in every
\* snapshot, is the serialization of its commands.
C6_CachedTextInSync ==
    \A k \in 1..Len(AllLists) :
       \A s \in PathsOf(AllLists[k]) : s.d = commandsToString(s.commands)

\* C7: once the pointer button is released, on the canvas or outside it, no
\* gesture state is left, and a pointer-move with the button up changes no
\* shape.
C7_NoStuckDrag ==
    /\ [](button = "up" =>
            drawing = None /\ draggingId = None /\ draggingPoint = None
            /\ dragOffset = None)
    /\ [][(button = "up" /\ StepOf("onMouseMove")) => shapes' = shapes]_vars

\* C8: shape ids are unique and never reused: the ids of the live list are
\* pairwise distinct, every id in the live list, in a snapshot or in the shape
\* being drawn is below the counter, and the counter never decreases.
C8_IdsUnique ==
    /\ [](/\ \A i, j \in 1..Len(shapes) : shapes[i].id = shapes[j].id => i = j
          /\ \A k \in 1..Len(AllLists) : \A id \in IdsOf(AllLists[k]) : id < idRef
          /\ drawing # None => drawing[1].id < idRef)
    /\ [][idRef' >= idRef]_vars

\* C8 witness: a shape has just been created by a draw or an import while a
\* snapshot still holds a shape that is no longer in the live list.
C8_Witness ==
    /\ lastOp \in {"onMouseDown", "onload"}
    /\ shapes # <<>>
    /\ \E k \in 1..Len(history) : IdsOf(history[k]) \ IdsOf(shapes) # {}

\* C9: undo on an empty past and redo on an empty future change neither the
\* live list nor the stacks, and raise no error.
C9_EmptyHistoryNoop ==
    [][/\ ((StepOf("undo") /\ Len(history) = 0) =>
              UNCHANGED << shapes, history, future >> /\ ~error')
       /\ ((StepOf("redo") /\ Len(future) = 0) =>
              UNCHANGED << shapes, history, future >> /\ ~error')
      ]_vars

\* C9 witness: undo has just run on an empty past (an undo that finds a
\* snapshot leaves future non-empty), with shapes on the canvas.
C9_Witness ==
    /\ lastOp = "undo"
    /\ history = <<>>
    /\ future = <<>>
    /\ shapes # <<>>

\* no commands array is held by two shapes of the live list and the snapshots
NoSharedArrays ==
    /\ \A k, l \in 1..Len(AllLists) :
          k # l => RefsOf(AllLists[k]) \cap RefsOf(AllLists[l]) = {}
    /\ \A k \in 1..Len(AllLists) :
          \A s, t \in PathsOf(AllLists[k]) : s.ref = t.ref => s = t

\* the snapshots that stay on a stack keep their place and their contents:
\* the past changes at its end, future at its front
StacksKept ==
    /\ \A i \in 1..Min(Len(history), Len(history')) : history'[i] = history[i]
    /\ \A i \in 0..(Min(Len(future), Len(future')) - 1) :
          future'[Len(future') - i] = future[Len(future) - i]

\* C10: snapshots are structurally independent: a snapshot shares no array
\* with the live list or with another snapshot, and no handler changes the
\* contents of a snapshot that stays in the past or in future.
C10_SnapshotsIndependent ==
    /\ []NoSharedArrays
    /\ [][StacksKept]_vars

\* C10 witness: after an undo a point move has just rewritten a path of the
\* live list, and the snapshot left in future still holds the path as it was.
C10_Witness ==
    /\ lastOp = "onMouseMove"
    /\ draggingPoint # None
    /\ future # <<>>
    /\ \E s \in PathsOf(shapes) :
          \E t \in PathsOf(future[1]) : t.id = s.id /\ t.commands # s.commands

\* C11: import bypasses history.  When the import callback completes, the live
\* list is exactly the list built from the document being read, and the past
\* and future are left as they were.
C11_ImportBypassesHistory ==
    [][StepOf("onload") =>
          /\ \E doc \in pending :
                ByValue(shapes') = ByValue(Loaded(doc, idRef, UsedRefs))
          /\ UNCHANGED << history, future >>]_vars

\* C11 witness: an import has just completed over a non-empty past and a
\* non-empty future, and it brought shapes.
C11_Witness ==
    /\ lastOp = "onload"
    /\ history # <<>>
    /\ future # <<>>
    /\ shapes # <<>>

\* C12: import is non-undoable.  An undo that follows an import, with no
\* mutating action in between, never makes the live list equal to the list
\* that was live just before that import, when that list differs from the
\* imported one; stated for the undo that comes right after the import.
C12_ImportNotUndoable ==
    [][(StepOf("undo") /\ replaced # None /\ replaced[1] # ByValue(shapes)) =>
          ByValue(shapes') # replaced[1]]_vars

\* an attribute, or the fallback the claim names for a missing one
Given(a, fallback) == IF a = None THEN fallback ELSE a[1]

\* the shape C13 expects for an element, without its id
ExpectedShape(e) ==
    IF e.tag = "rect"
    THEN [type |-> "rect", x |-> Given(e.x, 0), y |-> Given(e.y, 0),
          width |-> Given(e.width, 0), height |-> Given(e.height, 0),
          fill |-> Given(e.fill, "transparent"), stroke |-> Given(e.stroke, "black")]
    ELSE IF e.tag = "circle"
    THEN [type |-> "circle", cx |-> Given(e.cx, 0), cy |-> Given(e.cy, 0),
          r |-> Given(e.r, 0),
          fill |-> Given(e.fill, "transparent"), stroke |-> Given(e.stroke, "black")]
    ELSE [type |-> "path", d |-> Given(e.d, <<>>), commands |-> parsePath(Given(e.d, <<>>)),
          fill |-> Given(e.fill, "transparent"), stroke |-> Given(e.stroke, "black")]

\* a shape without its id and its array identity
Anonymous(s) ==
    IF s.type = "rect"
    THEN [type |-> "rect", x |-> s.x, y |-> s.y, width |-> s.width, height |-> s.height,
          fill |-> s.fill, stroke |-> s.stroke]
    ELSE IF s.type = "circle"
    THEN [type |-> "circle", cx |-> s.cx, cy |-> s.cy, r |-> s.r,
          fill |-> s.fill, stroke |-> s.stroke]
    ELSE [type |-> "path", d |-> s.d, commands |-> s.commands,
          fill |-> s.fill, stroke |-> s.stroke]

\* the positions of the known shape elements of a document
KnownElems(doc) ==
    {i \in 1..Len(doc.elems) : doc.elems[i].tag \in {"rect", "circle", "path"}}

\* C13: an import of a document with k rect, m circle and p path elements
\* gives exactly k+m+p shapes, one per element with its geometry and colours
\* (0, transparent and black for what is missing), with the ids c .. c+k+m+p-1
\* each used once, and leaves the counter at c+k+m+p; unknown elements give
\* nothing.
C13_ImportShapes ==
    [][StepOf("onload") =>
          \E doc \in pending :
             LET n == Cardinality(KnownElems(doc))
             IN  /\ Len(shapes') = n
                 /\ \A i \in KnownElems(doc) :
                       Cardinality({j \in 1..Len(shapes') :
                                       Anonymous(shapes'[j]) = ExpectedShape(doc.elems[i])})
                       = Cardinality({j \in KnownElems(doc) :
                                       ExpectedShape(doc.elems[j]) = ExpectedShape(doc.elems[i])})
                 /\ IdsOf(shapes') = idRef..(idRef + n - 1)
                 /\ idRef' = idRef + n]_vars

\* C13 witness: an import that started from a counter above 0 has just given a
\* circle with every fallback next to a shape of another type.
C13_Witness ==
    /\ lastOp = "onload"
    /\ idRef > Len(shapes)
    /\ \E i, j \in 1..Len(shapes) :
          /\ shapes[i].type = "circle"
          /\ shapes[i].r = 0
          /\ shapes[i].fill = "transparent"
          /\ shapes[i].stroke = "black"
          /\ shapes[j].type # "circle"

\* the view frame C14 expects after the import of a document
ExpectedFrame(doc) ==
    IF doc.viewBox # None THEN doc.viewBox
    ELSE IF doc.width # None /\ doc.height # None
            /\ IsNum(doc.width[1]) /\ IsNum(doc.height[1])
         THEN Some(<<0, 0, doc.width[1], doc.height[1]>>)
    ELSE None

\* C14: after any import the canvas view frame is the document's view-box if
\* it has one, else 0 0 w h if it has a numeric width and height, else unset;
\* so an import of a document without a view frame unsets the frame that an
\* earlier import set.
C14_ViewFrameAfterImport ==
    [][StepOf("onload") =>
          \E doc \in pending :
             pending' = pending \ {doc} /\ viewBox' = ExpectedFrame(doc)]_vars

\* C15: an import that completes while a pointer gesture is in progress
\* overwrites the live list with the imported shapes, and the pointer-moves and
\* the pointer-up that remain of that gesture leave the imported list as it is.
C15_ImportDuringGesture ==
    [][/\ ((StepOf("onload") /\ button = "down") =>
              \E doc \in pending :
                 ByValue(shapes') = ByValue(Loaded(doc, idRef, UsedRefs)))
       /\ ((overwritten /\ (StepOf("onMouseMove") \/ StepOf("onMouseUp"))) =>
              ByValue(shapes') = ByValue(shapes))
      ]_vars

\* C15 witness: a pointer-move of a point drag has just been handled after an
\* import replaced the list during the drag.
C15_Witness ==
    /\ overwritten
    /\ lastOp = "onMouseMove"
    /\ draggingPoint # None
    /\ shapes # <<>>

\* C16: a rectangle drawn by a pointer-down at (x0, y0), pointer-moves that end
\* at (x1, y1) and a pointer-up on the canvas is stored with origin
\* (min(x0,x1), min(y0,y1)), width |x1-x0| and height |y1-y0|, after the shapes
\* that were there at the pointer-down, which are unchanged.
C16_DrawnRectNormalized ==
    [][(/\ StepOf("onMouseUp")
        /\ drawn # None
        /\ trail # <<>>
        /\ drawing # None
        /\ drawing[1].type = "rect") =>
          LET x0 == drawn[1].from[1]
              y0 == drawn[1].from[2]
              x1 == drawn[1].to[1]
              y1 == drawn[1].to[2]
          IN  ByValue(shapes') =
                 Append(trail[Len(trail)],
                        RectShape(drawing[1].id, Min(x0, x1), Min(y0, y1),
                                  Abs(x1 - x0), Abs(y1 - y0),
                                  drawing[1].fill, drawing[1].stroke))]_vars

\* C17: every circle of the live list has a radius >= 0, however it came into
\* the list: by a draw gesture, by undo or redo, or by import.
C17_RadiusNonNegative ==
    \A i \in 1..Len(shapes) :
       shapes[i].type = "circle" => IsNum(shapes[i].r) /\ shapes[i].r >= 0

\* the points of `commands` resolved at the back-reference of `point`
PointsAt(commands, point) ==
    SelectSeq(getPathPoints(commands),
              LAMBDA q : q.cmdIndex = point.cmdIndex /\ q.valueIndex = point.valueIndex)

\* the points resolved from the commands before the one that owns `point`
PointsBefore(commands, point) ==
    SelectSeq(getPathPoints(commands), LAMBDA q : q.cmdIndex < point.cmdIndex)

\* the step is a pointer-move that moves a point of the path at position i
PointMoveOf(i) ==
    /\ StepOf("onMouseMove")
    /\ draggingPoint # None
    /\ dragOffset # None
    /\ IsSelectedPath(shapes[i])
    /\ ~error'

\* C18: when movePathPoint moves a point p resolved from a command sequence to
\* (nx, ny), resolving again gives, at the back-reference of p, (nx, ny) if the
\* owning command is M, L, T, C, S, Q or A in either case, (nx, old y) if it
\* is H and (old x, ny) if it is V; the points of the commands before it are
\* unchanged.
C18_MovedPointResolves ==
    [][\A i \in 1..Len(shapes) :
          (PointMoveOf(i) /\ Len(PointsAt(shapes[i].commands, draggingPoint[1])) = 1) =>
             LET p == draggingPoint[1]
                 nx == draggingPoint'[1].x
                 ny == draggingPoint'[1].y
                 old == PointsAt(shapes[i].commands, p)[1]
                 after == PointsAt(shapes'[i].commands, p)
                 upper == toUpperCase(shapes[i].commands[p.cmdIndex + 1].code)
             IN  /\ Len(after) = 1
                 /\ upper \in {"M", "L", "T", "C", "S", "Q", "A"} =>
                       after[1].x = nx /\ after[1].y = ny
                 /\ upper = "H" => after[1].x = nx /\ after[1].y = old.y
                 /\ upper = "V" => after[1].x = old.x /\ after[1].y = ny
                 /\ PointsBefore(shapes'[i].commands, p) = PointsBefore(shapes[i].commands, p)
      ]_vars

\* C18 witness: a pointer-move has just moved the end point of a relative arc
\* that follows another command; the snapshot taken at the pointer-down still
\* holds the arc as it was.
C18_Witness ==
    /\ lastOp = "onMouseMove"
    /\ draggingPoint # None
    /\ history # <<>>
    /\ \E s \in PathsOf(shapes) : \E t \in PathsOf(history[Len(history)]) :
          /\ t.id = s.id
          /\ draggingPoint[1].cmdIndex = 1
          /\ Len(t.commands) = 2
          /\ t.commands[2].code = "a"
          /\ s.commands[2].code = "A"
          /\ s.commands[2].values # t.commands[2].values

\* the places (1-based) of the values that a move of `point` on a command
\* with code `upper` is to rewrite
Targeted(upper, point) ==
    IF upper \in {"H", "V"} THEN {point.valueIndex + 1}
    ELSE {point.valueIndex + 1, point.valueIndex + 2}

\* C19: a point move on a relative command makes its code the uppercase
\* letter, on an absolute command it leaves the code; it rewrites only the
\* values at the parameter offset of the point (to nx, ny; nx for H, ny for V);
\* every other value of that command and every other command stay as they
\* were.
C19_MoveFrame ==
    [][\A i \in 1..Len(shapes) :
          (PointMoveOf(i) /\ Len(PointsAt(shapes[i].commands, draggingPoint[1])) = 1) =>
             LET p == draggingPoint[1]
                 nx == draggingPoint'[1].x
                 ny == draggingPoint'[1].y
                 before == shapes[i].commands
                 after == shapes'[i].commands
                 c == before[p.cmdIndex + 1]
                 c2 == after[p.cmdIndex + 1]
                 upper == toUpperCase(c.code)
             IN  /\ Len(after) = Len(before)
                 /\ \A j \in 1..Len(before) : j # p.cmdIndex + 1 => after[j] = before[j]
                 /\ c2.code = upper
                 /\ Len(c2.values) >= Len(c.values)
                 /\ \A k \in 1..Len(c.values) :
                       k \notin Targeted(upper, p) => c2.values[k] = c.values[k]
                 /\ c2.values[p.valueIndex + 1] = (IF upper = "V" THEN ny ELSE nx)
                 /\ upper \notin {"H", "V"} => c2.values[p.valueIndex + 2] = ny
      ]_vars

\* C19 witness: a pointer-move has just moved the first point of a relative
\* line command with two groups; the command is absolute now and its second
\* group is as in the snapshot taken at the pointer-down.
C19_Witness ==
    /\ lastOp = "onMouseMove"
    /\ draggingPoint # None
    /\ draggingPoint[1].valueIndex = 0
    /\ history # <<>>
    /\ \E s \in PathsOf(shapes) : \E t \in PathsOf(history[Len(history)]) :
          LET ci == draggingPoint[1].cmdIndex + 1
          IN  /\ t.id = s.id
              /\ ci <= Len(t.commands)
              /\ t.commands[ci].code = "l"
              /\ Len(t.commands[ci].values) = 4
              /\ s.commands[ci].code = "L"
              /\ SubSeq(s.commands[ci].values, 1, 2) # SubSeq(t.commands[ci].values, 1, 2)
              /\ SubSeq(s.commands[ci].values, 3, 4) = SubSeq(t.commands[ci].values, 3, 4)

\* the step is an Insert on the path at position i
InsertOn(i) ==
    /\ StepOf("handleInsert")
    /\ picked' # None
    /\ selectedPoint # None
    /\ IsSelectedPath(shapes[i])

\* C20: Insert after a point on the selected path gives a command sequence
\* one longer: the commands it had, with their codes, values and order, and
\* one new command with the requested code at the index after the point's
\* command; every other shape is unchanged. On M 10 10 L 20 20, inserting L
\* after (10,10) resolves to (10,10), (10,10), (20,20).
C20_InsertPlacesOneCommand ==
    [][\A i \in 1..Len(shapes) :
          InsertOn(i) =>
             LET before == shapes[i].commands
                 after == shapes'[i].commands
                 n == Len(before)
                 k == selectedPoint[1].cmdIndex + 1
                 resolved == getPathPoints(after)
             IN  /\ Len(shapes') = Len(shapes)
                 /\ \A j \in 1..Len(shapes) : j # i => shapes'[j] = shapes[j]
                 /\ shapes'[i] = WithCommands(shapes[i], after)
                 /\ Len(after) = n + 1
                 /\ k <= n
                 /\ after[k + 1].code = picked'[1]
                 /\ SubSeq(after, 1, k) = SubSeq(before, 1, k)
                 /\ SubSeq(after, k + 2, n + 1) = SubSeq(before, k + 1, n)
                 /\ ( /\ before = parsePath(Str_M10_10_L20_20)
                      /\ k = 1
                      /\ selectedPoint[1].x = 10 /\ selectedPoint[1].y = 10
                      /\ picked'[1] = "L" ) =>
                       [j \in 1..Len(resolved) |-> <<resolved[j].x, resolved[j].y>>]
                          = << <<10, 10>>, <<10, 10>>, <<20, 20>> >>
      ]_vars

\* the value list a new command with `code` is to get from the point (x, y):
\* one value for H and V, none for Z, the pair for every other code
SeededValues(code, point) ==
    IF code = "H" THEN <<point.x>>
    ELSE IF code = "V" THEN <<point.y>>
    ELSE IF code = "Z" THEN <<>>
    ELSE <<point.x, point.y>>

\* C21: the command created by Insert after a point of the selected path
\* takes its values from the selected point with the arity of the new code:
\* [x] for H, [y] for V, [] for Z and [x, y] for every other code.
C21_InsertedArity ==
    [][\A i \in 1..Len(shapes) :
          (InsertOn(i) /\ InBounds(selectedPoint[1], shapes[i].commands)) =>
             shapes'[i].commands[selectedPoint[1].cmdIndex + 2].values
                = SeededValues(picked'[1], selectedPoint[1])
      ]_vars

\* the step is the point-menu edit `op` on the path at position i
EditOn(op, i) ==
    /\ StepOf(op)
    /\ selectedPoint # None
    /\ IsSelectedPath(shapes[i])

\* the step leaves every shape but the one at position i as it was, and of
\* that one everything but the commands and the cached text
OnlyCommandsOf(i) ==
    /\ Len(shapes') = Len(shapes)
    /\ \A j \in 1..Len(shapes) : j # i => shapes'[j] = shapes[j]
    /\ [shapes'[i] EXCEPT !.commands = shapes[i].commands, !.d = shapes[i].d,
                          !.ref = shapes[i].ref] = shapes[i]

\* C22: Convert sets the code of the command at the point's command index to
\* the new code and replaces all its values by [x] for H, [y] for V, [] for Z
\* and [x, y] otherwise, however many groups it had; the number of commands,
\* every other command and every other shape are unchanged.
C22_ConvertReplacesValues ==
    [][\A i \in 1..Len(shapes) :
          (EditOn("handleConvert", i) /\ picked' # None) =>
             LET before == shapes[i].commands
                 after == shapes'[i].commands
                 k == selectedPoint[1].cmdIndex + 1
             IN  /\ OnlyCommandsOf(i)
                 /\ Len(after) = Len(before)
                 /\ k <= Len(after)
                 /\ after[k] = [code |-> picked'[1],
                                values |-> SeededValues(picked'[1], selectedPoint[1])]
                 /\ \A j \in 1..Len(before) : j # k => after[j] = before[j]
      ]_vars

\* C23: SetRelative changes only the letter case of the code of the command
\* at the point's command index: its values, every other command and every
\* other shape are unchanged; run a second time with the same selection it
\* gives back the command sequence and the cached text it started from.
C23_SetRelativeInvolution ==
    [][\A i \in 1..Len(shapes) :
          EditOn("handleSetRelative", i) =>
             LET before == shapes[i].commands
                 after == shapes'[i].commands
                 k == selectedPoint[1].cmdIndex + 1
             IN  /\ OnlyCommandsOf(i)
                 /\ Len(after) = Len(before)
                 /\ k <= Len(after)
                 /\ after[k].values = before[k].values
                 /\ after[k].code # before[k].code
                 /\ toUpperCase(after[k].code) = toUpperCase(before[k].code)
                 /\ \A j \in 1..Len(before) : j # k => after[j] = before[j]
                 /\ toggled # None => ByValue(shapes') = toggled[1]
      ]_vars

\* C24: Delete removes the command at the point's command index from the
\* selected path: one command fewer, the others as they were and in their
\* order, every other shape unchanged, and the selected point cleared.
C24_DeleteRemovesOneCommand ==
    [][\A i \in 1..Len(shapes) :
          EditOn("handleDeletePoint", i) =>
             LET before == shapes[i].commands
                 after == shapes'[i].commands
                 k == selectedPoint[1].cmdIndex + 1
             IN  /\ OnlyCommandsOf(i)
                 /\ Len(after) = Len(before) - 1
                 /\ SubSeq(after, 1, k - 1) = SubSeq(before, 1, k - 1)
                 /\ SubSeq(after, k, Len(after)) = SubSeq(before, k + 1, Len(before))
                 /\ selectedPoint' = None
      ]_vars

\* the (x, y) of the points, in order
Coordinates(points) == [j \in 1..Len(points) |-> <<points[j].x, points[j].y>>]

\* C25: for a command sequence over the codes M L H V C S Q T A Z in either
\* case with numeric values, parsePath of the text that commandsToString
\* writes resolves to the same points, in order, as the sequence itself.
C25_RoundTripResolves ==
    [][StepOf("onload") =>
          \A commands \in RoundTripInputs :
             PathDoc(commands) \in pending =>
                /\ Len(shapes') = 1
                /\ shapes'[1].commands = parsePath(commandsToString(commands))
                /\ Coordinates(getPathPoints(shapes'[1].commands))
                      = Coordinates(getPathPoints(commands))
      ]_vars

\* the current point of the resolver after the first n commands
CurrentAfter(commands, n) ==
    LET w == WalkFrom(SubSeq(commands, 1, n), 0, Walk(<<>>, 0, 0))
    IN  <<w.cx, w.cy>>

\* the points the resolver reports for the command at place n (1-based)
PointsOfCommand(commands, n) ==
    SelectSeq(getPathPoints(commands), LAMBDA q : q.cmdIndex = n - 1)

\* a coordinate of a command: the value itself, added to `cur` when relative
Resolved(isRel, v, cur) == IF isRel THEN Plus(v, cur) ELSE v

\* C26: a C, S or Q command with 2k values gives k points, one for each pair
\* of values, with parameter offsets 0, 2, ..., 2k-2, every pair of a relative
\* command offset by the current point at the start of the command, and only
\* the last pair becomes the current point; an A command with 7k values gives
\* k points with offsets 5, 12, ... at the trailing (x, y) of each group; a Z
\* command gives no point and leaves the current point as it was.
C26_CurveArcCloseShape ==
    \A s \in PathsOf(shapes) : \A n \in 1..Len(s.commands) :
       LET cmd == s.commands[n]
           upper == toUpperCase(cmd.code)
           isRel == cmd.code # upper
           vals == cmd.values
           start == CurrentAfter(s.commands, n - 1)
           end == CurrentAfter(s.commands, n)
           pts == PointsOfCommand(s.commands, n)
       IN  /\ (upper \in {"C", "S", "Q"} /\ Len(vals) % 2 = 0) =>
                /\ Len(pts) = Len(vals) \div 2
                /\ \A j \in 1..Len(pts) :
                      /\ pts[j].valueIndex = 2 * (j - 1)
                      /\ pts[j].x = Resolved(isRel, vals[2 * j - 1], start[1])
                      /\ pts[j].y = Resolved(isRel, vals[2 * j], start[2])
                /\ end = IF pts = <<>> THEN start
                         ELSE <<pts[Len(pts)].x, pts[Len(pts)].y>>
           /\ (upper = "A" /\ Len(vals) % 7 = 0) =>
                /\ Len(pts) = Len(vals) \div 7
                /\ \A j \in 1..Len(pts) :
                      LET cur == IF j = 1 THEN start ELSE <<pts[j - 1].x, pts[j - 1].y>>
                      IN  /\ pts[j].valueIndex = 7 * (j - 1) + 5
                          /\ pts[j].x = Resolved(isRel, vals[7 * j - 1], cur[1])
                          /\ pts[j].y = Resolved(isRel, vals[7 * j], cur[2])
           /\ upper = "Z" => pts = <<>> /\ end = start

\* C26 witness: the import has just read a path that holds a relative curve
\* command with three pairs after a relative arc with two groups.
C26_Witness ==
    /\ lastOp = "onload"
    /\ \E s \in PathsOf(shapes) :
          /\ Len(s.commands) = 2
          /\ s.commands[1].code = "a" /\ Len(s.commands[1].values) = 14
          /\ s.commands[2].code = "c" /\ Len(s.commands[2].values) = 6
          /\ Len(getPathPoints(s.commands)) = 5

\* the id is set and no shape of the live list has it
Absent(id) == id # None /\ \A i \in 1..Len(shapes) : shapes[i].id # id[1]

\* the step is a point-menu edit or a drag move whose shape id is not in the
\* live list
RefersToAbsent ==
    \/ (\E op \in EditOps : StepOf(op)) /\ selectedPoint # None /\ Absent(selectedId)
    \/ /\ StepOf("onMouseMove")
       /\ draggingPoint # None /\ dragOffset # None
       /\ Absent(selectedId)
    \/ /\ StepOf("onMouseMove")
       /\ draggingPoint = None /\ dragOffset # None
       /\ Absent(draggingId)

\* C27: Insert, Convert, SetRelative, Delete and the point and shape drag
\* moves, when the shape id they refer to is not in the live list, leave the
\* live list, the past and the future unchanged and raise no error.
C27_AbsentIdNoop ==
    [][RefersToAbsent => /\ shapes' = shapes
                         /\ UNCHANGED << history, future >>
                         /\ ~error'
      ]_vars

\* C27 witness: Convert has just run with a selected point whose path is gone
\* from the live list, and the past still holds the list with that path.
C27_Witness ==
    /\ lastOp = "handleConvert"
    /\ selectedPoint # None
    /\ Absent(selectedId)
    /\ history # <<>>
    /\ \E t \in PathsOf(history[Len(history)]) : selectedId = Some(t.id)

\* C28: in every reachable state, mid-drag with a negative stored width or
\* height included, a rectangle is emitted with x = min(x, x+w),
\* y = min(y, y+h), width |w| and height |h|, and a circle with radius |r|:
\* the exported document holds no negative width, height or radius.
C28_EmittedGeometry ==
    \A i \in 1..Len(shapes) :
       LET s == shapes[i]
           e == Exported(shapes)[i]
       IN  /\ s.type = "rect" =>
                /\ e.x = (IF s.width < 0 THEN s.x + s.width ELSE s.x)
                /\ e.y = (IF s.height < 0 THEN s.y + s.height ELSE s.y)
                /\ e.width = (IF s.width < 0 THEN -s.width ELSE s.width)
                /\ e.height = (IF s.height < 0 THEN -s.height ELSE s.height)
                /\ e.width >= 0 /\ e.height >= 0
           /\ s.type = "circle" =>
                /\ e.r = (IF s.r < 0 THEN -s.r ELSE s.r)
                /\ e.r >= 0

\* C28 witness: a rectangle is being drawn up and to the left, so that its
\* stored width and height are negative, next to an imported circle with a
\* negative radius.
C28_Witness ==
    /\ drawing # None
    /\ button = "down"
    /\ \E i \in 1..Len(shapes) :
          shapes[i].type = "rect" /\ shapes[i].width < 0 /\ shapes[i].height < 0
    /\ \E i \in 1..Len(shapes) : shapes[i].type = "circle" /\ shapes[i].r < 0

\* all values of the commands, in order
RECURSIVE AllValues(_)
AllValues(commands) ==
    IF commands = <<>> THEN <<>>
    ELSE Head(commands).values \o AllValues(Tail(commands))

\* the running sums of the pairs in `vals`, starting from (x, y)
RECURSIVE RunningSums(_, _, _)
RunningSums(vals, x, y) ==
    IF Len(vals) < 2 THEN <<>>
    ELSE <<<<Plus(vals[1], x), Plus(vals[2], y)>>>>
         \o RunningSums(SubSeq(vals, 3, Len(vals)), Plus(vals[1], x), Plus(vals[2], y))

\* every command is a relative move or line with whole pairs of values
RelativeMovesAndLines(commands) ==
    \A n \in 1..Len(commands) :
       commands[n].code \in {"m", "l"} /\ Len(commands[n].values) % 2 = 0

\* C29: the current point starts at (0,0); each pair of values of an M, L or
\* T command resolves to the values themselves when the code is uppercase and
\* to the current point plus the values when it is lowercase, and becomes the
\* current point; each value of H resolves to (x, current y) and of V to
\* (current x, y), the relative form adding to the current coordinate. The
\* points of relative m/l commands are the running sums of their pairs.
C29_MoveLineRule ==
    \A s \in PathsOf(shapes) :
       /\ CurrentAfter(s.commands, 0) = <<0, 0>>
       /\ RelativeMovesAndLines(s.commands) =>
             Coordinates(getPathPoints(s.commands)) = RunningSums(AllValues(s.commands), 0, 0)
       /\ \A n \in 1..Len(s.commands) :
             LET cmd == s.commands[n]
                 upper == toUpperCase(cmd.code)
                 isRel == cmd.code # upper
                 vals == cmd.values
                 start == CurrentAfter(s.commands, n - 1)
                 end == CurrentAfter(s.commands, n)
                 pts == PointsOfCommand(s.commands, n)
                 cur(j) == IF j = 1 THEN start ELSE <<pts[j - 1].x, pts[j - 1].y>>
             IN  /\ (upper \in {"M", "L", "T"} /\ Len(vals) % 2 = 0) =>
                      /\ Len(pts) = Len(vals) \div 2
                      /\ \A j \in 1..Len(pts) :
                            /\ pts[j].valueIndex = 2 * (j - 1)
                            /\ pts[j].x = Resolved(isRel, vals[2 * j - 1], cur(j)[1])
                            /\ pts[j].y = Resolved(isRel, vals[2 * j], cur(j)[2])
                      /\ end = cur(Len(pts) + 1)
                 /\ upper = "H" =>
                      /\ Len(pts) = Len(vals)
                      /\ \A j \in 1..Len(pts) :
                            /\ pts[j].valueIndex = j - 1
                            /\ pts[j].x = Resolved(isRel, vals[j], cur(j)[1])
                            /\ pts[j].y = start[2]
                      /\ end = cur(Len(pts) + 1)
                 /\ upper = "V" =>
                      /\ Len(pts) = Len(vals)
                      /\ \A j \in 1..Len(pts) :
                            /\ pts[j].valueIndex = j - 1
                            /\ pts[j].x = start[1]
                            /\ pts[j].y = Resolved(isRel, vals[j], cur(j)[2])
                      /\ end = cur(Len(pts) + 1)

\* C29 witness: the import has just read the path m 1 1 l 5 5 3 3, whose
\* points are (1,1), (6,6) and (9,9).
C29_Witness ==
    /\ lastOp = "onload"
    /\ \E s \in PathsOf(shapes) :
          /\ s.commands = << Cmd("m", <<1, 1>>), Cmd("l", <<5, 5, 3, 3>>) >>
          /\ Coordinates(getPathPoints(s.commands)) = << <<1, 1>>, <<6, 6>>, <<9, 9>> >>

\* the three stores, by value
StoresByValue(list, past, fut) ==
    [shapes |-> ByValue(list), history |-> AllByValue(past), future |-> AllByValue(fut)]

\* C30: undo takes the last snapshot of the past, makes it the live list and
\* puts a copy of the live list at the front of future; redo takes the first
\* snapshot of future, makes it the live list and appends a copy of the live
\* list to the past; neither changes len(past) + len(future); k undos
\* followed by k redos give back the live list, the past and the future as
\* they were before the first undo.
C30_UndoRedoLifo ==
    [][/\ (StepOf("undo") /\ Len(history) > 0) =>
             StoresByValue(shapes', history', future')
                = StoresByValue(history[Len(history)],
                                SubSeq(history, 1, Len(history) - 1),
                                <<shapes>> \o future)
       /\ (StepOf("redo") /\ Len(future) > 0) =>
             StoresByValue(shapes', history', future')
                = StoresByValue(future[1], Append(history, shapes), Tail(future))
       /\ (StepOf("undo") \/ StepOf("redo")) =>
             Len(history') + Len(future') = Len(history) + Len(future)
       /\ (StepOf("redo") /\ Len(future) > 0 /\ NotRedone(unwound) # <<>>) =>
             LET before == NotRedone(unwound)[Len(NotRedone(unwound))]
             IN  StoresByValue(shapes', history', future')
                    = [shapes |-> before.shapes, history |-> before.history,
                       future |-> before.future]
      ]_vars

\* C30 witness: two undos have just been followed by two redos, and the live
\* list before the first undo differed from both snapshots of the past.
C30_Witness ==
    /\ lastOp = "redo"
    /\ Len(unwound) = 2
    /\ NotRedone(unwound) = <<>>
    /\ Len(history) = 2
    /\ ByValue(shapes) = unwound[1].shapes
    /\ unwound[1].shapes # unwound[2].shapes
    /\ AllByValue(history) = unwound[1].history
    /\ history[1] # history[2]

\* the shapes of one type, in order
OfType(list, t) == SelectSeq(list, LAMBDA sh : sh.type = t)

\* two lists hold the same rectangles, circles and paths: the same number of
\* each, with the same emitted geometry and colours, ids aside
SameDrawing(a, b) ==
    \A t \in {"rect", "circle", "path"} : Exported(OfType(a, t)) = Exported(OfType(b, t))

\* C31: importing the document that exporting the live list produced gives a
\* live list with the same rectangles, circles and paths (ids aside); the
\* grid and the point handles of the canvas do not become shapes.
C31_ExportImportRoundTrip ==
    [][(StepOf("onload") /\ CanvasDoc(shapes, viewBox) \in pending) =>
          SameDrawing(shapes, shapes')]_vars

\* the gesture states that are active
ActiveGestures ==
    { g \in {"draw", "shape drag", "point drag"} :
        \/ g = "draw" /\ drawing # None
        \/ g = "shape drag" /\ draggingId # None
        \/ g = "point drag" /\ draggingPoint # None }

\* C32: in every reachable state at most one of the three gesture states (a
\* shape being drawn, a shape being dragged, a path point being dragged) is
\* active.
C32_GesturesExclusive == Cardinality(ActiveGestures) <= 1

\* the number of values one group of a command with this code takes
ArityOf(code) ==
    LET upper == toUpperCase(code)
    IN  IF upper \in {"M", "L", "T", "C", "S", "Q"} THEN 2
        ELSE IF upper \in {"H", "V"} THEN 1
        ELSE IF upper = "A" THEN 7
        ELSE 0

\* the value count of the command is a multiple of the arity of its code
WellFormedCommand(cmd) ==
    IF ArityOf(cmd.code) = 0 THEN Len(cmd.values) = 0
    ELSE Len(cmd.values) % ArityOf(cmd.code) = 0

\* the point has both coordinates, and its parameter offset (and the next
\* one, unless the command is H or V) lies inside the values of its command
WellResolvedPoint(commands, q) ==
    LET cmd == commands[q.cmdIndex + 1]
        last == IF toUpperCase(cmd.code) \in {"H", "V"} THEN q.valueIndex
                ELSE q.valueIndex + 1
    IN  /\ IsNum(q.x) /\ IsNum(q.y)
        /\ last < Len(cmd.values)

\* C33: the paths start with value counts that are multiples of the arity of
\* their codes (M/L/T/C/S/Q 2, H/V 1, A 7, Z 0); after any point moves,
\* Insert, Convert, SetRelative and Delete every command still has such a
\* count, and every point the resolver gives has both coordinates and its
\* parameter offsets inside the values of its command.
C33_ArityPreserved ==
    \A s \in PathsOf(shapes) :
       /\ \A n \in 1..Len(s.commands) : WellFormedCommand(s.commands[n])
       /\ \A j \in 1..Len(getPathPoints(s.commands)) :
             WellResolvedPoint(s.commands, getPathPoints(s.commands)[j])

\* what a draw event may not change of the shape it draws: the fill, the
\* stroke, the type, the centre of a circle and, on a move, the origin of a
\* rect
SameButDrawn(op, a, b) ==
    /\ b.type = a.type /\ b.id = a.id
    /\ b.fill = a.fill /\ b.stroke = a.stroke
    /\ a.type = "circle" => b.cx = a.cx /\ b.cy = a.cy
    /\ a.type = "rect" /\ op = "onMouseMove" => b.x = a.x /\ b.y = a.y

\* a pointer-move or pointer-up handled by its draw branch: a draw is active
\* and, for a move, no drag takes the event first
DrawEvent(op) ==
    /\ StepOf(op)
    /\ drawing # None
    /\ op = "onMouseMove" => draggingId = None /\ draggingPoint = None

\* C34: every pointer-move and pointer-up processed while a draw is active
\* changes at most the width and height (or the radius) and, on release, the
\* origin of the shape with the id of the drawn shape; the fill and stroke of
\* that shape and every other shape of the live list stay as they were,
\* whatever happened since the draw started.
C34_DrawTouchesOnlyDrawn ==
    [][\A op \in {"onMouseMove", "onMouseUp"} :
          DrawEvent(op) =>
             /\ Len(shapes') = Len(shapes)
             /\ \A i \in 1..Len(shapes) :
                   IF shapes[i].id = drawing[1].id
                   THEN SameButDrawn(op, shapes[i], shapes'[i])
                   ELSE shapes'[i] = shapes[i]]_vars

\* the points the resolver gives for the commands at the command index and
\* the parameter offset of the point `pt`
ResolvedAt(commands, pt) ==
    { j \in 1..Len(getPathPoints(commands)) :
         /\ getPathPoints(commands)[j].cmdIndex = pt.cmdIndex
         /\ getPathPoints(commands)[j].valueIndex = pt.valueIndex }

\* the stored x and y of the selected point are the coordinates the resolver
\* gives for the current commands of the selected path at the same command
\* index and parameter offset
SelectedPointConsistent ==
    selectedPoint # None =>
       \A s \in PathsOf(shapes) :
          selectedId = Some(s.id) =>
             /\ ResolvedAt(s.commands, selectedPoint[1]) # {}
             /\ \A j \in ResolvedAt(s.commands, selectedPoint[1]) :
                   /\ getPathPoints(s.commands)[j].x = selectedPoint[1].x
                   /\ getPathPoints(s.commands)[j].y = selectedPoint[1].y

\* the operations after which the selected point is said to stay consistent
PointKeepingOps ==
    {"onMouseMove", "handleSetRelative", "handleConvert", "handleInsert",
     "undo", "redo"}

\* C35: whenever a point is selected and its shape is in the live list, the
\* stored x and y of the selected point are the coordinates the resolver
\* gives for the current commands of that path at the same command index and
\* parameter offset: a point drag (on H and V commands too), SetRelative,
\* Convert, Insert, undo and redo keep a consistent selected point
\* consistent.
C35_SelectedPointConsistent ==
    [][\A op \in PointKeepingOps :
          StepOf(op) /\ SelectedPointConsistent => SelectedPointConsistent']_vars

\* the press on a shape or a point leaves the live list as it is, pushes one
\* snapshot equal to it onto the past and empties the future
PressRecords ==
    /\ ByValue(shapes') = ByValue(shapes)
    /\ AllByValue(history') = Append(AllByValue(history), ByValue(shapes))
    /\ future' = <<>>

\* C36: a press on an existing shape or path point and the release that
\* follows it with no pointer movement in between leave the live list
\* unchanged, but push one snapshot equal to the live list onto the past and
\* empty the future; the undo that comes next leaves the shape list as it is.
C36_ClickRecordsNoChange ==
    [][/\ \A op \in PressOps : StepOf(op) => PressRecords
       /\ StepOf("onMouseUp") /\ lastOp \in PressOps =>
             /\ ByValue(shapes') = ByValue(shapes)
             /\ AllByValue(history') = AllByValue(history)
             /\ future' = future
       /\ StepOf("undo") /\ lastOp = "onMouseUp" /\ clicked # None =>
             /\ ByValue(shapes') = ByValue(shapes)
             /\ ByValue(shapes') = clicked[1]]_vars

\* C37: clear empties the live list and unsets the view frame of the canvas.
\* On a non-empty list it pushes exactly one snapshot of the list it clears
\* onto the past and empties the future, so that an immediate undo puts the
\* cleared list back; on an empty list it leaves the past and the future as
\* they are.
C37_ClearRecordsNonEmpty ==
    [][/\ StepOf("clear") =>
             /\ shapes' = <<>>
             /\ viewBox' = None
             /\ IF Len(shapes) # 0
                THEN /\ AllByValue(history') =
                           Append(AllByValue(history), ByValue(shapes))
                     /\ future' = <<>>
                ELSE /\ history' = history
                     /\ future' = future
       /\ StepOf("undo") /\ lastOp = "clear" /\ trail # <<>> =>
             /\ ByValue(shapes') = trail[Len(trail)]
             /\ shapes' # <<>>]_vars

\* a clear of an empty list under a view frame has kept the redo stack
C37_Witness ==
    /\ lastOp = "clear"
    /\ trail = <<>>
    /\ shapes = <<>> /\ viewBox = None
    /\ future # <<>>

\* the shape elements of a document, in the order of the document
ShapeElemsInOrder(doc) ==
    SelectSeq(doc.elems, LAMBDA e : e.tag \in {"rect", "circle", "path"})

\* C38: an import keeps the order of the document: the imported shapes stand
\* in the live list (and so in z-order and in id order) in the order in which
\* their elements stand in the document, however rect, circle and path
\* elements are interleaved.
C38_ImportKeepsOrder ==
    [][\A doc \in pending :
          StepOf("onload") /\ pending' = pending \ {doc} =>
             /\ Len(shapes') = Len(ShapeElemsInOrder(doc))
             /\ \A i \in 1..Len(shapes') :
                   Anonymous(shapes'[i]) = ExpectedShape(ShapeElemsInOrder(doc)[i])]_vars

\* the positions of the ASCII letters of the text
LetterAt(d) == {i \in 1..Len(d) : IsLetter(d[i])}

\* the position of the k-th letter of the text
NthLetter(d, k) ==
    CHOOSE i \in LetterAt(d) : Cardinality({j \in LetterAt(d) : j < i}) = k - 1

\* the text between the k-th letter and the next letter, or the end
SegmentAfter(d, k) ==
    LET from == NthLetter(d, k) + 1
        to == IF k < Cardinality(LetterAt(d)) THEN NthLetter(d, k + 1) - 1 ELSE Len(d)
    IN  SubSeq(d, from, to)

\* where the tokens of a segment start: a character that is no separator,
\* at the start or after a separator
TokenStarts(seg) ==
    {a \in 1..Len(seg) : ~IsSep(seg[a]) /\ (a = 1 \/ IsSep(seg[a - 1]))}

\* the token that starts at a: up to the next separator or the end
TokenFrom(seg, a) ==
    LET b == CHOOSE e \in a..Len(seg) :
                /\ \A j \in a..e : ~IsSep(seg[j])
                /\ e = Len(seg) \/ IsSep(seg[e + 1])
    IN  SubSeq(seg, a, b)

\* the tokens of a segment, in order
TokensOf(seg) ==
    [n \in 1..Cardinality(TokenStarts(seg)) |->
        TokenFrom(seg, CHOOSE a \in TokenStarts(seg) :
                          Cardinality({c \in TokenStarts(seg) : c < a}) = n - 1)]

\* an optional sign and at least one digit
WellFormedToken(tok) ==
    \/ AllDigits(tok)
    \/ Len(tok) > 1 /\ Head(tok) \in {"-", "+"} /\ AllDigits(Tail(tok))

\* the commands are one per letter of the text, in order, each with the
\* tokens that follow its letter as numbers, a malformed token as NaN
ParsedAs(d, commands) ==
    /\ Len(commands) = Cardinality(LetterAt(d))
    /\ \A k \in 1..Len(commands) :
          LET tokens == TokensOf(SegmentAfter(d, k))
          IN  /\ commands[k].code = d[NthLetter(d, k)]
              /\ Len(commands[k].values) = Len(tokens)
              /\ \A n \in 1..Len(tokens) :
                    commands[k].values[n] =
                       IF WellFormedToken(tokens[n]) THEN Number(tokens[n]) ELSE NaN

\* C39: parsePath is total and permissive: for every text it gives, without
\* raising, one command per ASCII letter of the text, in order, whose values
\* are the tokens between that letter and the next one, separated by blanks
\* or commas and converted to numbers, a malformed token becoming NaN; a
\* letter with no token after it has no values, and the text before the first
\* letter is ignored.
C39_ParseTotalPermissive ==
    [][StepOf("onload") =>
          /\ ~error'
          /\ \A i \in 1..Len(shapes') :
                shapes'[i].type = "path" =>
                   /\ shapes'[i].commands = parsePath(shapes'[i].d)
                   /\ ParsedAs(shapes'[i].d, shapes'[i].commands)]_vars

\* an import has parsed a text that starts with something else than a
\* letter and has a malformed token and a letter with no token after it
C39_Witness ==
    /\ lastOp = "onload"
    /\ \E s \in PathsOf(shapes) :
          /\ s.d # <<>> /\ ~IsLetter(s.d[1])
          /\ \E k \in 1..Len(s.commands) : s.commands[k].values = <<>>
          /\ \E k \in 1..Len(s.commands) :
                \E n \in 1..Len(s.commands[k].values) : s.commands[k].values[n] = NaN

====
